---- MODULE Spec2Model ----
(***************************************************************************)
(* Travel Concierge MCP server (schlpbch/mcp-travel-assistant).            *)
(*                                                                         *)
(* The process starts (module import builds the SerpAPI client, a caller   *)
(* builds an ExchangeRateClient, app_lifespan builds the Amadeus client),  *)
(* then serves one call at a time: a handler runs to completion (pc goes   *)
(* from "idle" to "returned") and the host consumes the value.  The record *)
(* `call` holds the handler's inputs, what the upstream did, the value     *)
(* handed back and the number of upstream requests the handler issued.     *)
(*                                                                         *)
(* Encodings: an Optional value is <<>> (None) or <<v>>; a message is a    *)
(* sequence of text fragments; a Python dict result is a record giving its *)
(* return convention (native map or JSON string), its key set, its error   *)
(* message and the number of entries of its result list.                   *)
(***************************************************************************)
EXTENDS Integers, Sequences, FiniteSets, TLC

VARIABLES env, serpapi_api_key, fx_api_key, amadeus_client,
          GEOLOCATOR_INSTANCE, geocoding_client, pc, call, threads, geocoding

vars == <<env, serpapi_api_key, fx_api_key, amadeus_client,
          GEOLOCATOR_INSTANCE, geocoding_client, pc, call, threads, geocoding>>

\* what the handlers leave alone: the process configuration and its clients
config == <<env, serpapi_api_key, fx_api_key, amadeus_client>>

----------------------------------------------------------------------------
(* Bounds of the model *)

\* the threads that call into the geocoding code
NumThreads == 2
\* the largest adults, children and infants values a caller passes
MaxAdultsIn == 11
MaxChildrenIn == 9
MaxInfantsIn == 10
\* the longest result list an upstream body carries
MaxItems == 2
\* the largest max_results a caller passes
MaxResultsIn == 3
\* the longest amenities list of a hotel property
MaxAmenities == 3
\* the longest facilities list of a GDS hotel
MaxFacilities == 2
MaxAmountIn == 12
MaxRateIn == 12
MaxSegments == 3
MaxParams == 2
MaxPricings == 2
MaxDetails == 2

----------------------------------------------------------------------------
(* Values *)

None == <<>>
Some(v) == <<v>>
IsNone(o) == o = <<>>
\* Python truthiness of an Optional[int]: None and 0 are falsy
TruthyInt(o) == o # <<>> /\ o[1] # 0
\* `o or d`
OrElse(o, d) == IF TruthyInt(o) THEN o[1] ELSE d

Range(s) == {s[i] : i \in 1..Len(s)}
Min(a, b) == IF a <= b THEN a ELSE b

\* an unset (or empty) environment variable; `not api_key` is true of it
NoKey == ""
FxKeys == {"fx-key-1", "fx-key-2"}

\* list[:m] on a list of n entries
SliceLen(n, m) ==
    IF m >= 0 THEN Min(n, m) ELSE IF n + m >= 0 THEN n + m ELSE 0

----------------------------------------------------------------------------
(* Results *)

ErrorMap(msg) ==
    [type |-> "map", keys |-> {"error"}, error |-> msg, items |-> 0]

format_error_response(error_msg) == ErrorMap(error_msg)

\* json.dumps of a dict: the same content, delivered as a str
json_dumps(d) == [d EXCEPT !.type = "json"]

SuccessMap(keys, n) ==
    [type |-> "map", keys |-> keys, error |-> <<>>, items |-> n]

NoneResult == [type |-> "none", keys |-> {}, error |-> <<>>, items |-> 0]

IsError(r) == r.type \in {"map", "json"} /\ "error" \in r.keys

----------------------------------------------------------------------------
(* The upstream HTTP service as seen through requests.get / raise_for_status
   / response.json: a 2xx answer with a JSON body, or a RequestException.   *)

HttpFailures == {"timeout", "connection", "http_error", "bad_json"}

\* what the upstream does with one GET: its status, the size of the result
\* list of a 2xx body, and whether the text of the raised exception quotes
\* the request URL (requests does so for HTTP and connection errors)
HttpOutcomes ==
    [status : {"ok"}, items : 0..MaxItems, quotes_url : {FALSE}]
    \cup [status : HttpFailures, items : {0}, quotes_url : BOOLEAN]

\* str(e) of the RequestException raised for outcome `up` of a GET of `url`
ExcStr(up, url) ==
    IF up.quotes_url THEN <<up.status, " for url: ">> \o url ELSE <<up.status>>

\* the exception class requests raises for a failed GET
ExcClass(up) ==
    CASE up.status = "timeout" -> "Timeout"
      [] up.status = "connection" -> "ConnectionError"
      [] up.status = "http_error" -> "HTTPError"
      [] up.status = "bad_json" -> "JSONDecodeError"
      [] OTHER -> ""

\* a handler that catches HTTPError alone
IsRequestException_HTTPErrorOnly(cls) == cls = "HTTPError"

\* `except requests.exceptions.RequestException`
IsRequestException(cls) ==
    cls \in {"Timeout", "ConnectionError", "HTTPError", "JSONDecodeError"}

\* `except Exception`
IsException(cls) ==
    \/ IsRequestException(cls)
    \/ cls \in {"ResponseError", "AttributeError", "TypeError", "ValueError",
                "IndexError", "GeocoderTimedOut", "GeocoderUnavailable",
                "Exception"}

\* what a handler hands to its caller: the value returned (or the class of the
\* exception that escapes), and the HTTP GETs, the Amadeus SDK calls and the
\* geocoder calls it issued; url is the URL of the GET where the model follows
\* it
Ret(result, http, sdk) ==
    [result |-> result, raised |-> "", http |-> http, sdk |-> sdk, geo |-> 0,
     url |-> <<>>]

Raise(cls, http, sdk) ==
    [result |-> NoneResult, raised |-> cls, http |-> http, sdk |-> sdk, geo |-> 0,
     url |-> <<>>]

RetGeo(result, geo) ==
    [result |-> result, raised |-> "", http |-> 0, sdk |-> 0, geo |-> geo,
     url |-> <<>>]

RaiseGeo(cls, geo) ==
    [result |-> NoneResult, raised |-> cls, http |-> 0, sdk |-> 0, geo |-> geo,
     url |-> <<>>]

\* the outcome of a handler whose GET went to url
Get(url, ret) == [ret EXCEPT !.url = url]

----------------------------------------------------------------------------
(* helpers.py: environment *)

\* get_serpapi_key / get_exchange_rate_api_key: the key, or ValueError
\* (rendered <<"ValueError", message>>) when the variable is unset or empty
get_serpapi_key(e) ==
    IF e.SERPAPI_KEY = NoKey
    THEN <<"ValueError", "SERPAPI_KEY environment variable is required">>
    ELSE <<"ok", e.SERPAPI_KEY>>

get_exchange_rate_api_key(e) ==
    IF e.EXCHANGE_RATE_API_KEY = NoKey
    THEN <<"ValueError", "EXCHANGE_RATE_API_KEY environment variable is required">>
    ELSE <<"ok", e.EXCHANGE_RATE_API_KEY>>

----------------------------------------------------------------------------
(* clients.py: SerpAPIClient *)

\* the URL requests builds from base_url and params (api_key and engine are
\* query parameters)
SerpUrl(api_key, engine) ==
    <<"https://serpapi.com/search", "?api_key=", api_key, "&engine=", engine>>

\* SerpAPIClient.__init__: the key captured at construction, None if unset
SerpAPIClient_api_key(e) ==
    IF get_serpapi_key(e)[1] = "ValueError" THEN NoKey ELSE get_serpapi_key(e)[2]

\* the parsed JSON body of a 2xx answer
JsonBody(up) == SuccessMap({"body"}, up.items)

\* a _request that tries a failed GET a second time
SerpAPIClient_request_Retrying(api_key, engine, up) ==
    IF api_key = NoKey
    THEN Ret(ErrorMap(<<"SERPAPI_KEY environment variable not set">>), 0, 0)
    ELSE IF up.status = "ok"
    THEN Ret(JsonBody(up), 1, 0)
    ELSE IF IsRequestException(ExcClass(up))
    THEN Ret(ErrorMap(<<"SerpAPI request failed: ">>
                      \o ExcStr(up, SerpUrl(api_key, engine))), 2, 0)
    ELSE Raise(ExcClass(up), 2, 0)

\* SerpAPIClient._request: the dict handed back and the GETs issued
SerpAPIClient_request(api_key, engine, up) ==
    IF api_key = NoKey
    THEN Ret(ErrorMap(<<"SERPAPI_KEY environment variable not set">>), 0, 0)
    ELSE IF up.status = "ok"
    THEN Ret(JsonBody(up), 1, 0)
    ELSE IF IsRequestException(ExcClass(up))
    THEN Ret(ErrorMap(<<"SerpAPI request failed: ">>
                      \o ExcStr(up, SerpUrl(api_key, engine))), 1, 0)
    ELSE Raise(ExcClass(up), 1, 0)

\* search_flights / search_hotels / search_events / lookup_stock
SerpMethods == {"search_flights", "search_hotels", "search_events", "lookup_stock"}

SerpEngineOf(m) ==
    CASE m = "search_flights" -> "google_flights"
      [] m = "search_hotels" -> "google_hotels"
      [] m = "search_events" -> "google_events"
      [] m = "lookup_stock" -> "google_finance"

SerpAPIClient_method(api_key, m, up) ==
    SerpAPIClient_request(api_key, SerpEngineOf(m), up)

----------------------------------------------------------------------------
(* helpers.py: make_nws_request *)

make_nws_request(up) ==
    IF up.status = "ok"
    THEN Ret(JsonBody(up), 1, 0)
    ELSE IF IsRequestException(ExcClass(up))
    THEN Ret(NoneResult, 1, 0)
    ELSE Raise(ExcClass(up), 1, 0)

----------------------------------------------------------------------------
(* helpers.py: validation helpers.  A date string is rendered by its fields
   and its separator; a currency code is a string with a table saying whether
   it is alphabetic. *)

\* datetime.strptime(date_str, '%Y-%m-%d') succeeds
ParsesAsDate(d) ==
    LET leap == d.year % 4 = 0 /\ (d.year % 100 # 0 \/ d.year % 400 = 0)
        days == IF d.month = 2
                THEN IF leap THEN 29 ELSE 28
                ELSE IF d.month \in {4, 6, 9, 11} THEN 30 ELSE 31
    IN  /\ d.sep = "-"
        /\ d.month \in 1..12
        /\ d.day \in 1..days

\* validate_date_format: the date, or ValueError
validate_date_format(d, field_name) ==
    IF ParsesAsDate(d)
    THEN <<"ok", d>>
    ELSE <<"ValueError", <<field_name, " must be in YYYY-MM-DD format">>>>

\* validate_currency_code: the upper-cased code, or ValueError; isalpha is a
\* table over the codes of the model
validate_currency_code(code) ==
    IF code = "" \/ Len(code) # 3 \/ code \in {"", "U$D", "12", "123"}
    THEN <<"ValueError", <<"Currency code must be 3 letters (e.g., USD, EUR, GBP)">>>>
    ELSE <<"ok", code>>

----------------------------------------------------------------------------
(* The Amadeus SDK as seen through a `.get(...)` call: an object whose .body
   is a dict, an object whose .body is not a dict, or an exception.          *)

SdkOutcomes ==
    [kind : {"body"}, items : 0..MaxItems]
    \cup [kind : {"body_not_dict", "ResponseError", "AttributeError", "Exception"},
          items : {0}]

\* the exception a handler sees after `response = ....get(...)` and the use of
\* response.body as a dict ("" when there is none)
SdkException(sdk) ==
    CASE sdk.kind = "body" -> ""
      [] sdk.kind = "body_not_dict" -> "TypeError"
      [] OTHER -> sdk.kind

AmadeusKeys == {"data", "provider", "search_timestamp"}

----------------------------------------------------------------------------
(* clients.py: AmadeusClientWrapper *)

MinAdults == 1
MaxAdults == 9
MaxSeated == 9

\* the try body shared by the wrapper's methods: call, stamp, json.dumps
WrapperCall(sdk) == json_dumps(SuccessMap(AmadeusKeys, sdk.items))

\* a wrapper without the `except Exception` clause
WrapperExcept_ResponseErrorOnly(exc, n) ==
    IF exc = "ResponseError"
    THEN Ret(json_dumps(ErrorMap(<<"Amadeus API error: ", exc>>)), 0, n)
    ELSE Raise(exc, 0, n)

\* except ResponseError / except Exception, after n SDK calls
WrapperExcept(exc, n) ==
    IF exc = "ResponseError"
    THEN Ret(json_dumps(ErrorMap(<<"Amadeus API error: ", exc>>)), 0, n)
    ELSE IF IsException(exc)
    THEN Ret(json_dumps(ErrorMap(<<"Unexpected error: ", exc>>)), 0, n)
    ELSE Raise(exc, 0, n)

\* except ResponseError / except AttributeError / except Exception
WrapperExceptActivities(exc, n) ==
    IF exc = "ResponseError"
    THEN Ret(json_dumps(ErrorMap(<<"Amadeus API error: ", exc>>)), 0, n)
    ELSE IF exc = "AttributeError"
    THEN Ret(json_dumps([ErrorMap(<<"Tours and Activities API not available: ", exc>>)
                         EXCEPT !.keys = {"error", "note"}]), 0, n)
    ELSE IF IsException(exc)
    THEN Ret(json_dumps(ErrorMap(<<"Unexpected error: ", exc>>)), 0, n)
    ELSE Raise(exc, 0, n)

\* an adults check without its lower bound
AdultsInRange_NoLowerBound(a) == a <= MaxAdults

\* 1 <= adults <= 9
AdultsInRange(a) == MinAdults <= a /\ a <= MaxAdults

\* a seated-travelers check that ignores infants
SeatedExceeded_IgnoringInfants(a, c, i) == c # 0 /\ a + c > MaxSeated

\* children and infants and (adults + children > 9)
SeatedExceeded(a, c, i) == c # 0 /\ i # 0 /\ a + c > MaxSeated

\* infants and (infants > adults)
InfantsExceed(a, i) == i # 0 /\ i > a

\* AmadeusClientWrapper.search_flights; adults is <<>> when the caller passes
\* none (params.get("adults", 1))
Wrapper_search_flights(adults, children, infants, sdk) ==
    LET a == IF IsNone(adults) THEN 1 ELSE adults[1]
        c == OrElse(children, 0)
        i == OrElse(infants, 0)
    IN  IF ~AdultsInRange(a)
        THEN Ret(json_dumps(ErrorMap(<<"Adults must be between 1 and 9">>)), 0, 0)
        ELSE IF SeatedExceeded(a, c, i)
        THEN Ret(json_dumps(ErrorMap(<<"Total seated travelers cannot exceed 9">>)), 0, 0)
        ELSE IF InfantsExceed(a, i)
        THEN Ret(json_dumps(ErrorMap(<<"Infants cannot exceed adults">>)), 0, 0)
        ELSE IF SdkException(sdk) = ""
        THEN Ret(WrapperCall(sdk), 0, 1)
        ELSE WrapperExcept(SdkException(sdk), 1)

\* search_hotels_by_city and search_hotels_by_geocode
Wrapper_search_hotels(sdk) ==
    IF SdkException(sdk) = ""
    THEN Ret(WrapperCall(sdk), 0, 1)
    ELSE WrapperExcept(SdkException(sdk), 1)

\* a hotel-offer search that insists on cityCode
Wrapper_search_hotel_offers_CityOnly(cityCode, hotelIds, sdk) ==
    IF cityCode = ""
    THEN Ret(json_dumps(ErrorMap(<<"Either cityCode or hotelIds must be provided">>)),
             0, 0)
    ELSE IF SdkException(sdk) = ""
    THEN Ret(WrapperCall(sdk), 0, 1)
    ELSE WrapperExcept(SdkException(sdk), 1)

\* AmadeusClientWrapper.search_hotel_offers; "" is an absent or empty string
Wrapper_search_hotel_offers(cityCode, hotelIds, sdk) ==
    IF cityCode = "" /\ hotelIds = ""
    THEN Ret(json_dumps(ErrorMap(<<"Either cityCode or hotelIds must be provided">>)),
             0, 0)
    ELSE IF SdkException(sdk) = ""
    THEN Ret(WrapperCall(sdk), 0, 1)
    ELSE WrapperExcept(SdkException(sdk), 1)

\* search_activities and get_activity_details
Wrapper_activities(sdk) ==
    IF SdkException(sdk) = ""
    THEN Ret(WrapperCall(sdk), 0, 1)
    ELSE WrapperExceptActivities(SdkException(sdk), 1)

----------------------------------------------------------------------------
(* clients.py: ExchangeRateClient; server.py: convert_currency *)

CurrencyCodes == {"usd", "Usd", "USD", "eur", "EUR"}

\* a str.upper that leaves the code as it is
Upper_AsIs(code) == code

\* str.upper on the codes of the model
Upper(code) ==
    CASE code \in {"usd", "Usd"} -> "USD"
      [] code = "eur" -> "EUR"
      [] OTHER -> code

\* f"{base_url}/{api_key}/pair/{FROM}/{TO}"
FxUrl(api_key, from, to) ==
    <<"https://v6.exchangerate-api.com/v6", "/", api_key, "/pair/", from, "/", to>>

\* amounts are counted in tenths, rates in hundredths, converted amounts in
\* hundredths: 100.0 is 1000, 0.92 is 92, 92.0 is 9200
DefaultAmount == 10

\* what ExchangeRate-API does with one GET: as HttpOutcomes, and for a 2xx
\* answer the envelope's `result` and its conversion_rate (None when the key
\* is missing or null)
FxOutcomes ==
    [status : {"ok"}, items : {0}, quotes_url : {FALSE},
     envelope : {"success", "error"}, rate : {None, Some(92)}]
    \cup [status : HttpFailures, items : {0}, quotes_url : BOOLEAN,
          envelope : {""}, rate : {None}]

\* ExchangeRateClient.__init__
ExchangeRateClient_api_key(e) ==
    IF get_exchange_rate_api_key(e)[1] = "ValueError"
    THEN NoKey
    ELSE get_exchange_rate_api_key(e)[2]

\* a round(x, 2) that drops the third decimal
Round2_Truncating(thousandths, half_up) == thousandths \div 10

\* round(x, 2) of a positive x given in thousandths, in hundredths.  Python
\* rounds the binary float nearest to the product, so that a product whose
\* third decimal is an exact 5 lands on either neighbour: half_up says which
Round2(thousandths, half_up) ==
    LET q == thousandths \div 10
        r == thousandths % 10
    IN  IF r > 5 \/ (r = 5 /\ half_up) THEN q + 1 ELSE q

\* envelope checks that take any envelope with a `result` of "success"
FxEnvelope_NoRateCheck(up, success) ==
    IF up.envelope # "success"
    THEN ErrorMap(<<"ExchangeRate-API error">>)
    ELSE success

\* the envelope checks after response.json(): the error dict, or the success
\* dict the caller builds
FxEnvelope(up, success) ==
    IF up.envelope # "success"
    THEN ErrorMap(<<"ExchangeRate-API error">>)
    ELSE IF IsNone(up.rate)
    THEN ErrorMap(<<"Conversion rate not available">>)
    ELSE success

\* ExchangeRateClient.convert; float(rate) is the number rate
ExchangeRateClient_convert(api_key, from, to, amount, half_up, up) ==
    LET url == FxUrl(api_key, Upper(from), Upper(to))
        rate == IF IsNone(up.rate) THEN 0 ELSE up.rate[1]
        success ==
            [type |-> "map",
             keys |-> {"from_currency", "to_currency", "amount", "exchange_rate",
                       "converted_amount", "search_timestamp", "provider"},
             error |-> <<>>, items |-> 0,
             from_currency |-> Upper(from), to_currency |-> Upper(to),
             amount |-> amount, exchange_rate |-> rate,
             converted_amount |-> Round2(amount * rate, half_up)]
    IN  IF api_key = NoKey
        THEN Ret(ErrorMap(<<"EXCHANGE_RATE_API_KEY environment variable not set">>),
                 0, 0)
        ELSE IF up.status = "ok"
        THEN Get(url, Ret(FxEnvelope(up, success), 1, 0))
        ELSE IF IsRequestException(ExcClass(up))
        THEN Get(url, Ret(ErrorMap(<<"Currency API request failed: ">>
                                   \o ExcStr(up, url)), 1, 0))
        ELSE IF IsException(ExcClass(up))
        THEN Get(url, Ret(ErrorMap(<<"Unexpected error: ">> \o ExcStr(up, url)),
                          1, 0))
        ELSE Get(url, Raise(ExcClass(up), 1, 0))

\* server.py convert_currency: the key is read from the environment per call
convert_currency(e, from, to, amount, half_up, up) ==
    LET url == FxUrl(e.EXCHANGE_RATE_API_KEY, Upper(from), Upper(to))
        rate == IF IsNone(up.rate) THEN 0 ELSE up.rate[1]
        success ==
            [type |-> "map",
             keys |-> {"search_metadata", "exchange_rate", "conversion"},
             error |-> <<>>, items |-> 0,
             search_metadata |-> [from_currency |-> Upper(from),
                                  to_currency |-> Upper(to),
                                  amount |-> amount],
             exchange_rate |-> rate,
             conversion |-> [original_amount |-> amount,
                             converted_amount |-> Round2(amount * rate, half_up),
                             rate |-> rate]]
    IN  IF get_exchange_rate_api_key(e)[1] = "ValueError"
        THEN Ret(ErrorMap(<<"Currency conversion failed. Please try again.">>), 0, 0)
        ELSE IF up.status = "ok"
        THEN Get(url, Ret(FxEnvelope(up, success), 1, 0))
        ELSE IF IsRequestException(ExcClass(up))
        THEN Get(url, Ret(ErrorMap(<<"Currency API request failed. Please check currency codes and try again.">>),
                          1, 0))
        ELSE IF IsException(ExcClass(up))
        THEN Get(url, Ret(ErrorMap(<<"Currency conversion failed. Please try again.">>),
                          1, 0))
        ELSE Get(url, Raise(ExcClass(up), 1, 0))

----------------------------------------------------------------------------
(* server.py: the consumer-search tools *)

\* the travel-class names indexed by travel_class - 1
NumTravelClasses == 4

\* Python list indexing: list[k] of a list of n entries raises IndexError
\* unless -n <= k < n
IndexOk(k, n) == -n <= k /\ k < n


\* except ValueError / except Exception of a consumer-search tool
SerpToolExcept(label, exc, http) ==
    IF exc = "ValueError"
    THEN Ret(format_error_response(<<exc>>), http, 0)
    ELSE IF IsException(exc)
    THEN Ret(format_error_response(<<label, exc>>), http, 0)
    ELSE Raise(exc, http, 0)

\* search_flights_serpapi: outbound_date and currency go into params as they
\* are; the client's dict is read with .get(key, []) and never inspected for
\* an "error" key; the travel-class name is looked up after the request
search_flights_serpapi(api_key, outbound_date, currency, travel_class, max_results, up) ==
    LET flight_data == SerpAPIClient_method(api_key, "search_flights", up)
    IN  IF flight_data.raised # ""
        THEN SerpToolExcept("Google Flights API error: ", flight_data.raised,
                            flight_data.http)
        ELSE IF ~IndexOk(travel_class - 1, NumTravelClasses)
        THEN SerpToolExcept("Google Flights API error: ", "IndexError",
                            flight_data.http)
        ELSE Ret(SuccessMap({"provider", "search_metadata", "best_flights",
                             "other_flights", "price_insights", "airports"},
                            SliceLen(flight_data.result.items, max_results)),
                 flight_data.http, 0)

search_hotels_serpapi(api_key, max_results, up) ==
    LET hotel_data == SerpAPIClient_method(api_key, "search_hotels", up)
    IN  IF hotel_data.raised # ""
        THEN SerpToolExcept("Google Hotels API error: ", hotel_data.raised,
                            hotel_data.http)
        ELSE Ret(SuccessMap({"provider", "search_metadata", "properties",
                             "filters", "search_parameters", "location_info",
                             "accessibility_included"},
                            SliceLen(hotel_data.result.items, max_results)),
                 hotel_data.http, 0)

search_events_serpapi(api_key, max_results, up) ==
    LET event_data == SerpAPIClient_method(api_key, "search_events", up)
    IN  IF event_data.raised # ""
        THEN SerpToolExcept("Google Events API error: ", event_data.raised,
                            event_data.http)
        ELSE Ret(SuccessMap({"provider", "search_metadata", "events",
                             "search_parameters"},
                            SliceLen(event_data.result.items, max_results)),
                 event_data.http, 0)

----------------------------------------------------------------------------
(* server.py: the GDS tools *)

NoClient == "None"
SdkClient == "Client"

\* a lifespan that builds the client when either credential is set
app_lifespan_client_EitherKey(e, built) ==
    IF (e.AMADEUS_API_KEY # NoKey \/ e.AMADEUS_API_SECRET # NoKey) /\ built
    THEN SdkClient
    ELSE NoClient

\* app_lifespan: the client handed to the tools; built is FALSE when the
\* Client(...) constructor raises
app_lifespan_client(e, built) ==
    IF e.AMADEUS_API_KEY # NoKey /\ e.AMADEUS_API_SECRET # NoKey /\ built
    THEN SdkClient
    ELSE NoClient

\* except ResponseError / except Exception of a GDS tool
AmadeusToolExcept(exc, n) ==
    IF exc = "ResponseError"
    THEN Ret(format_error_response(<<"Amadeus API error: ", exc>>), 0, n)
    ELSE IF IsException(exc)
    THEN Ret(format_error_response(<<"Unexpected error: ", exc>>), 0, n)
    ELSE Raise(exc, 0, n)

\* handlers without the except AttributeError clause
AmadeusToolExceptActivities_NoNote(exc, n) ==
    IF exc = "ResponseError"
    THEN Ret(format_error_response(<<"Amadeus API error: ", exc>>), 0, n)
    ELSE IF IsException(exc)
    THEN Ret(format_error_response(<<"Unexpected error: ", exc>>), 0, n)
    ELSE Raise(exc, 0, n)

\* except ResponseError / except AttributeError / except Exception
AmadeusToolExceptActivities(exc, n) ==
    IF exc = "ResponseError"
    THEN Ret(format_error_response(<<"Amadeus API error: ", exc>>), 0, n)
    ELSE IF exc = "AttributeError"
    THEN Ret(format_error_response(
                 <<"Tours and Activities API not available in current SDK version: ",
                   exc,
                   " (This API might require a newer SDK version or special access)">>),
             0, n)
    ELSE IF IsException(exc)
    THEN Ret(format_error_response(<<"Unexpected error: ", exc>>), 0, n)
    ELSE Raise(exc, 0, n)

\* format_amadeus_response of a dict body: a copy with the two stamps
format_amadeus_response(sdk) == SuccessMap(AmadeusKeys, sdk.items)

\* the try block of a GDS tool: with no client the attribute lookup on None
\* raises AttributeError before any SDK call
AmadeusToolTry(client, sdk) ==
    IF client = NoClient
    THEN [exc |-> "AttributeError", sdk |-> 0]
    ELSE [exc |-> SdkException(sdk), sdk |-> 1]

\* adults and not (1 <= adults <= 9)
ToolAdultsRejected(adults) ==
    adults # 0 /\ ~(MinAdults <= adults /\ adults <= MaxAdults)

\* children and infants and adults and (adults + children > 9)
ToolSeatedExceeded(adults, children, infants) ==
    /\ TruthyInt(children)
    /\ TruthyInt(infants)
    /\ adults # 0
    /\ adults + children[1] > MaxSeated

\* an infants check that also rejects infants = adults
ToolInfantsExceed_OffByOne(adults, infants) ==
    TruthyInt(infants) /\ adults # 0 /\ infants[1] >= adults

\* infants and adults and (infants > adults)
ToolInfantsExceed(adults, infants) ==
    TruthyInt(infants) /\ adults # 0 /\ infants[1] > adults

\* search_flights_amadeus: adults is an int, children and infants Optional
search_flights_amadeus(client, adults, children, infants, sdk) ==
    LET t == AmadeusToolTry(client, sdk)
    IN  IF ToolAdultsRejected(adults)
        THEN Ret(format_error_response(<<"Adults must be between 1 and 9">>), 0, 0)
        ELSE IF ToolSeatedExceeded(adults, children, infants)
        THEN Ret(format_error_response(
                     <<"Total number of seated travelers (adults + children) cannot exceed 9">>),
                 0, 0)
        ELSE IF ToolInfantsExceed(adults, infants)
        THEN Ret(format_error_response(
                     <<"Number of infants cannot exceed number of adults">>), 0, 0)
        ELSE IF t.exc = ""
        THEN Ret(json_dumps(SuccessMap(AmadeusKeys \cup {"emissions_included",
                                                    "accessibility_included"},
                                    sdk.items)), 0, t.sdk)
        ELSE AmadeusToolExcept(t.exc, t.sdk)

\* search_hotels_amadeus_by_city and search_hotels_amadeus_geocode
search_hotels_amadeus(client, sdk) ==
    LET t == AmadeusToolTry(client, sdk)
    IN  IF t.exc = ""
        THEN Ret(format_amadeus_response(sdk), 0, t.sdk)
        ELSE AmadeusToolExcept(t.exc, t.sdk)

search_hotel_offers_amadeus(client, cityCode, hotelIds, sdk) ==
    LET t == AmadeusToolTry(client, sdk)
    IN  IF cityCode = "" /\ hotelIds = ""
        THEN Ret(format_error_response(
                     <<"Either cityCode or hotelIds must be provided">>), 0, 0)
        ELSE IF t.exc = ""
        THEN Ret(format_amadeus_response(sdk), 0, t.sdk)
        ELSE AmadeusToolExcept(t.exc, t.sdk)

\* search_activities_amadeus and get_activity_details_amadeus
activities_amadeus(client, sdk) ==
    LET t == AmadeusToolTry(client, sdk)
    IN  IF t.exc = ""
        THEN Ret(format_amadeus_response(sdk), 0, t.sdk)
        ELSE AmadeusToolExceptActivities(t.exc, t.sdk)

----------------------------------------------------------------------------
(* helpers.py: the module-level geolocator; clients.py: GeocodingClient;
   server.py: geocode_location *)

\* a pair whose reverse limiter wraps another geocoder
LimiterPair_TwoGeocoders(n) == <<n, (n % NumThreads) + 1>>

\* the (forward, reverse) limiter pair built around geocoder number n
LimiterPair(n) == <<n, n>>

Threads == 1..NumThreads
Directions == {"forward", "reverse"}
\* RateLimiter(..., min_delay_seconds=1)
min_delay_seconds == 1

\* _get_or_create_geolocator: the slot after the call (the pair it returns)
get_geolocator(slot) == IF slot = None THEN LimiterPair(1) ELSE slot

\* what the rate-limited geocoder does with one call: n matches (n = 0: none)
\* or an exception
GeoOutcomes ==
    [kind : {"answer"}, items : 0..MaxItems]
    \cup [kind : {"GeocoderTimedOut", "GeocoderUnavailable", "Exception"},
          items : {0}]

\* the matches handed back: one Location when exactly_one, else the list
GeoMatches(exactly_one, g) == IF exactly_one THEN Min(g.items, 1) ELSE g.items

\* the i-th geopy Location of an answer: float coordinates (in units of
\* 0.0001 degree), the address and the provider's payload
Location(i) ==
    [latitude |-> [type |-> "float", value |-> 488566 + i],
     longitude |-> [type |-> "float", value |-> 23522 - i],
     address |-> <<"address ", i>>,
     raw |-> <<"raw ", i>>]

\* the value bound to `result`: the Locations the limiter handed back
GeoResult(exactly_one, g) ==
    [i \in 1..GeoMatches(exactly_one, g) |-> Location(i)]

\* float(x)
float(x) == [type |-> "float", value |-> x.value]

\* a success dict of forward geocoding: its keys, the entry built for each
\* match, and datetime.now().isoformat()
GeoSuccess(keys, matches) ==
    [type |-> "map", keys |-> keys, error |-> <<>>, items |-> Len(matches),
     matches |-> matches, search_timestamp |-> "2025-06-15T12:00:00"]

\* a not-found dict that is the error alone
NotFound_ErrorOnly(msg) == ErrorMap(msg)

NotFound(msg) ==
    [ErrorMap(msg) EXCEPT !.keys = {"error", "suggestions"}]

\* GeocodingClient.geocode
GeocodingClient_geocode(exactly_one, g) ==
    IF g.kind # "answer"
    THEN IF IsException(g.kind)
         THEN RetGeo(ErrorMap(<<"Geocoding error: ", g.kind>>), 1)
         ELSE RaiseGeo(g.kind, 1)
    ELSE IF GeoMatches(exactly_one, g) = 0
    THEN RetGeo(NotFound(<<"Location '", "' not found">>), 1)
    ELSE LET result == GeoResult(exactly_one, g)
             entry(r) == [latitude |-> float(r.latitude),
                          longitude |-> float(r.longitude),
                          address |-> r.address]
         IN  IF exactly_one
             THEN RetGeo(GeoSuccess({"location", "latitude", "longitude",
                                     "address", "search_timestamp"},
                                    <<entry(result[1])>>), 1)
             ELSE RetGeo(GeoSuccess({"location", "results", "search_timestamp"},
                                    [i \in 1..Len(result) |-> entry(result[i])]),
                         1)

\* GeocodingClient.reverse_geocode
GeocodingClient_reverse_geocode(g) ==
    IF g.kind # "answer"
    THEN IF IsException(g.kind)
         THEN RetGeo(ErrorMap(<<"Reverse geocoding error: ", g.kind>>), 1)
         ELSE RaiseGeo(g.kind, 1)
    ELSE IF g.items = 0
    THEN RetGeo(ErrorMap(<<"No location found for coordinates">>), 1)
    ELSE RetGeo(SuccessMap({"latitude", "longitude", "address",
                            "search_timestamp"}, 1), 1)

\* server.py geocode_location
geocode_location(exactly_one, g) ==
    IF g.kind \in {"GeocoderTimedOut", "GeocoderUnavailable"}
    THEN RetGeo(ErrorMap(<<"Geocoding service error: ", g.kind>>), 1)
    ELSE IF g.kind # "answer"
    THEN IF IsException(g.kind)
         THEN RetGeo(ErrorMap(<<"Unexpected error: ", g.kind>>), 1)
         ELSE RaiseGeo(g.kind, 1)
    ELSE IF GeoMatches(exactly_one, g) = 0
    THEN RetGeo(NotFound(<<"Location '", "' not found">>), 1)
    ELSE LET result == GeoResult(exactly_one, g)
             entry(r) == [coordinates |-> [latitude |-> float(r.latitude),
                                           longitude |-> float(r.longitude)],
                          address |-> r.address,
                          raw_data |-> r.raw]
         IN  IF exactly_one
             THEN RetGeo(GeoSuccess({"location", "coordinates", "address",
                                     "raw_data", "search_timestamp"},
                                    <<entry(result[1])>>), 1)
             ELSE RetGeo(GeoSuccess({"location", "multiple_results",
                                     "search_timestamp"},
                                    [i \in 1..Len(result) |-> entry(result[i])]),
                         1)

----------------------------------------------------------------------------
(* Inputs *)

OptInts(S) == {None} \cup {Some(v) : v \in S}
AdultsIn == -1..MaxAdultsIn
ChildrenIn == OptInts(0..MaxChildrenIn)
InfantsIn == OptInts(0..MaxInfantsIn)
ResultsIn == 0..MaxResultsIn
\* 2025-06-15, 2025/06/15, 2025-02-30 and 2025-13-01
DatesIn ==
    {[year |-> 2025, month |-> 6, day |-> 15, sep |-> "-"],
     [year |-> 2025, month |-> 6, day |-> 15, sep |-> "/"],
     [year |-> 2025, month |-> 2, day |-> 30, sep |-> "-"],
     [year |-> 2025, month |-> 13, day |-> 1, sep |-> "-"]}
CityCodesIn == {"", "PAR"}
HotelIdsIn == {"", "H1"}

----------------------------------------------------------------------------
(* The state machine *)

NoCall == [op |-> "none"]
NoArgs == [none |-> TRUE]

\* no thread has started; no geocoder was built, no store replaced a pair in
\* the slot, no pair was returned, no limiter admitted a call, no two
\* requests reached the provider less than a second apart
NoThreads ==
    [t \in Threads |-> [pc |-> "idle", pair |-> None]]
NoGeo ==
    [built |-> 0, replaced |-> FALSE, returned |-> {},
     since_last_call |-> [d \in Directions |-> [n \in Threads |-> None]],
     too_close |-> [d \in Directions |-> FALSE]]

Init ==
    /\ env \in [SERPAPI_KEY : {"serp-key"} \cup {NoKey},
               EXCHANGE_RATE_API_KEY : FxKeys \cup {NoKey},
               AMADEUS_API_KEY : {"ama-id"} \cup {NoKey},
               AMADEUS_API_SECRET : {"ama-secret"} \cup {NoKey}]
    /\ serpapi_api_key = NoKey
    /\ fx_api_key = NoKey
    /\ amadeus_client = NoClient
    /\ GEOLOCATOR_INSTANCE = None
    /\ geocoding_client = None
    /\ pc = "import"
    /\ call = NoCall
    /\ threads = NoThreads
    /\ geocoding = NoGeo

\* server.py line 75: serpapi_client = SerpAPIClient()
SerpAPIClient_init ==
    /\ pc = "import"
    /\ serpapi_api_key' = SerpAPIClient_api_key(env)
    /\ pc' = "construct"
    /\ UNCHANGED <<env, fx_api_key, amadeus_client, call,
                   GEOLOCATOR_INSTANCE, geocoding_client, threads, geocoding>>

\* ExchangeRateClient()
ExchangeRateClient_init ==
    /\ pc = "construct"
    /\ fx_api_key' = ExchangeRateClient_api_key(env)
    /\ pc' = "lifespan"
    /\ UNCHANGED <<env, serpapi_api_key, amadeus_client, call,
                   GEOLOCATOR_INSTANCE, geocoding_client, threads, geocoding>>

\* app_lifespan up to its yield
app_lifespan ==
    /\ pc = "lifespan"
    /\ \E built \in BOOLEAN : amadeus_client' = app_lifespan_client(env, built)
    /\ pc' = "idle"
    /\ UNCHANGED <<env, serpapi_api_key, fx_api_key, call,
                   GEOLOCATOR_INSTANCE, geocoding_client, threads, geocoding>>

\* one handler run to completion: op with inputs args against upstream
\* behaviour up; inner is the dict the client layer handed to a tool
\* (up is recorded only when the handler reached the upstream)
Returns(op, args, up, inner, ret) ==
    /\ pc' = "returned"
    /\ call' = [op |-> op, args |-> args,
                up |-> IF ret.http + ret.sdk + ret.geo = 0 
                      THEN [status |-> "not_reached", kind |-> "not_reached",
                            items |-> 0]
                      ELSE up,
                inner |-> inner,
                result |-> ret.result, raised |-> ret.raised,
                http |-> ret.http, sdk |-> ret.sdk, geo |-> ret.geo,
                url |-> ret.url]
    /\ UNCHANGED <<config, threads, geocoding>>

Handle(op, args, up, inner, ret) ==
    /\ Returns(op, args, up, inner, ret)
    /\ UNCHANGED <<GEOLOCATOR_INSTANCE, geocoding_client>>


SerpAPIClient_call ==
    /\ pc = "idle"
    /\ \E m \in SerpMethods, up \in HttpOutcomes :
        Handle(m, NoArgs, up, NoneResult, SerpAPIClient_method(serpapi_api_key, m, up))

NWS_request ==
    /\ pc = "idle"
    /\ \E up \in HttpOutcomes :
        Handle("make_nws_request", NoArgs, up, NoneResult, make_nws_request(up))

Tool_search_flights_serpapi ==
    /\ pc = "idle"
    /\ \E d \in DatesIn, cur \in {"USD", "US", "U$D"}, tc \in 0..(NumTravelClasses + 1),
          mr \in ResultsIn, up \in HttpOutcomes :
        Handle("search_flights_serpapi",
               [outbound_date |-> d, currency |-> cur, travel_class |-> tc,
                max_results |-> mr], up,
               SerpAPIClient_method(serpapi_api_key, "search_flights", up).result,
               search_flights_serpapi(serpapi_api_key, d, cur, tc, mr, up))

Tool_search_hotels_serpapi ==
    /\ pc = "idle"
    /\ \E mr \in ResultsIn, up \in HttpOutcomes :
        Handle("search_hotels_serpapi", [max_results |-> mr], up,
               SerpAPIClient_method(serpapi_api_key, "search_hotels", up).result,
               search_hotels_serpapi(serpapi_api_key, mr, up))

Tool_search_events_serpapi ==
    /\ pc = "idle"
    /\ \E mr \in ResultsIn, up \in HttpOutcomes :
        Handle("search_events_serpapi", [max_results |-> mr], up,
               SerpAPIClient_method(serpapi_api_key, "search_events", up).result,
               search_events_serpapi(serpapi_api_key, mr, up))

Client_search_flights ==
    /\ pc = "idle"
    /\ \E a \in OptInts(AdultsIn), c \in ChildrenIn, i \in InfantsIn, sdk \in SdkOutcomes :
        Handle("Wrapper.search_flights",
               [adults |-> a, children |-> c, infants |-> i], sdk, NoneResult,
               Wrapper_search_flights(a, c, i, sdk))

Client_search_hotels ==
    /\ pc = "idle"
    /\ \E m \in {"Wrapper.search_hotels_by_city", "Wrapper.search_hotels_by_geocode"},
       sdk \in SdkOutcomes :
        Handle(m, NoArgs, sdk, NoneResult, Wrapper_search_hotels(sdk))

Client_search_hotel_offers ==
    /\ pc = "idle"
    /\ \E cc \in CityCodesIn, h \in HotelIdsIn, sdk \in SdkOutcomes :
        Handle("Wrapper.search_hotel_offers", [cityCode |-> cc, hotelIds |-> h],
               sdk, NoneResult, Wrapper_search_hotel_offers(cc, h, sdk))

Client_activities ==
    /\ pc = "idle"
    /\ \E m \in {"Wrapper.search_activities", "Wrapper.get_activity_details"},
       sdk \in SdkOutcomes :
        Handle(m, NoArgs, sdk, NoneResult, Wrapper_activities(sdk))

Client_convert ==
    /\ pc = "idle"
    /\ \E f \in CurrencyCodes, t \in CurrencyCodes, a \in {DefaultAmount, 1000},
          up \in FxOutcomes :
        Handle("ExchangeRateClient.convert",
               [from |-> f, to |-> t, amount |-> a, half_up |-> FALSE], up,
               NoneResult,
               ExchangeRateClient_convert(fx_api_key, f, t, a, FALSE, up))

Tool_convert_currency ==
    /\ pc = "idle"
    /\ \E f \in CurrencyCodes, t \in CurrencyCodes, a \in {DefaultAmount, 1000},
          up \in FxOutcomes :
        Handle("convert_currency",
               [from |-> f, to |-> t, amount |-> a, half_up |-> FALSE], up,
               NoneResult,
               convert_currency(env, f, t, a, FALSE, up))

Tool_search_flights_amadeus ==
    /\ pc = "idle"
    /\ \E a \in AdultsIn, c \in ChildrenIn, i \in InfantsIn, sdk \in SdkOutcomes :
        Handle("search_flights_amadeus",
               [adults |-> Some(a), children |-> c, infants |-> i], sdk, NoneResult,
               search_flights_amadeus(amadeus_client, a, c, i, sdk))

Tool_search_hotels_amadeus ==
    /\ pc = "idle"
    /\ \E m \in {"search_hotels_amadeus_by_city", "search_hotels_amadeus_geocode"},
       sdk \in SdkOutcomes :
        Handle(m, NoArgs, sdk, NoneResult, search_hotels_amadeus(amadeus_client, sdk))

Tool_search_hotel_offers_amadeus ==
    /\ pc = "idle"
    /\ \E cc \in CityCodesIn, h \in HotelIdsIn, sdk \in SdkOutcomes :
        Handle("search_hotel_offers_amadeus", [cityCode |-> cc, hotelIds |-> h],
               sdk, NoneResult,
               search_hotel_offers_amadeus(amadeus_client, cc, h, sdk))

Tool_activities_amadeus ==
    /\ pc = "idle"
    /\ \E m \in {"search_activities_amadeus", "get_activity_details_amadeus"},
       sdk \in SdkOutcomes :
        Handle(m, NoArgs, sdk, NoneResult, activities_amadeus(amadeus_client, sdk))

\* GeocodingClient(): captures the limiter pair get_geolocator() returns
GeocodingClient_init ==
    /\ pc = "idle"
    /\ geocoding_client = None
    /\ GEOLOCATOR_INSTANCE' = get_geolocator(GEOLOCATOR_INSTANCE)
    /\ geocoding_client' = get_geolocator(GEOLOCATOR_INSTANCE)
    /\ UNCHANGED <<config, threads, geocoding, pc, call>>

Client_geocode ==
    /\ pc = "idle"
    /\ geocoding_client # None
    /\ \E x \in BOOLEAN, g \in GeoOutcomes :
        Handle("GeocodingClient.geocode", [exactly_one |-> x], g, NoneResult,
               GeocodingClient_geocode(x, g))

Client_reverse_geocode ==
    /\ pc = "idle"
    /\ geocoding_client # None
    /\ \E g \in GeoOutcomes :
        Handle("GeocodingClient.reverse_geocode", NoArgs, g, NoneResult,
               GeocodingClient_reverse_geocode(g))

Tool_geocode_location ==
    /\ pc = "idle"
    /\ GEOLOCATOR_INSTANCE' = get_geolocator(GEOLOCATOR_INSTANCE)
    /\ UNCHANGED geocoding_client
    /\ \E x \in BOOLEAN, g \in GeoOutcomes :
        Returns("geocode_location", [exactly_one |-> x], g, NoneResult,
                geocode_location(x, g))

\* the host takes the value and the server waits for the next call
HostReceives ==
    /\ pc = "returned"
    /\ pc' = "idle"
    /\ call' = NoCall
    /\ UNCHANGED <<config, threads, geocoding, GEOLOCATOR_INSTANCE, geocoding_client>>

Next ==
    \/ SerpAPIClient_init
    \/ ExchangeRateClient_init
    \/ app_lifespan
    \/ SerpAPIClient_call
    \/ NWS_request
    \/ Tool_search_flights_serpapi
    \/ Tool_search_hotels_serpapi
    \/ Tool_search_events_serpapi
    \/ Client_search_flights
    \/ Client_search_hotels
    \/ Client_search_hotel_offers
    \/ Client_activities
    \/ Client_convert
    \/ Tool_convert_currency
    \/ Tool_search_flights_amadeus
    \/ Tool_search_hotels_amadeus
    \/ Tool_search_hotel_offers_amadeus
    \/ Tool_activities_amadeus
    \/ GeocodingClient_init
    \/ Client_geocode
    \/ Client_reverse_geocode
    \/ Tool_geocode_location
    \/ HostReceives

Spec == Init /\ [][Next]_vars

----------------------------------------------------------------------------
(* helpers.py: build_optional_params.  A Python value is rendered by its
   repr; a dict is a function from its keys. *)

\* bool(v) is True
Truthy(v) == v \notin {"None", "0", "False", "''", "[]"}

\* all dicts with keys among K and values among V
Dicts(K, V) == UNION {[D -> V] : D \in SUBSET K}

\* a builder that applies the truthy check to every optional field
build_optional_params_TruthyOnly(required_params, optional_params, none_check_fields) ==
    LET kept == {k \in DOMAIN optional_params : Truthy(optional_params[k])}
    IN  [k \in DOMAIN required_params \cup kept |->
            IF k \in kept THEN optional_params[k] ELSE required_params[k]]

\* build_optional_params; none_check_fields is <<>> (None) or <<set>>
build_optional_params(required_params, optional_params, none_check_fields) ==
    LET none_check_set ==
            IF IsNone(none_check_fields) \/ none_check_fields[1] = {}
            THEN {}
            ELSE none_check_fields[1]
        kept == {k \in DOMAIN optional_params :
                    IF k \in none_check_set
                    THEN optional_params[k] # "None"
                    ELSE Truthy(optional_params[k])}
    IN  [k \in DOMAIN required_params \cup kept |->
            IF k \in kept THEN optional_params[k] ELSE required_params[k]]

\* the params search_flights_amadeus hands to the SDK
search_flights_amadeus_params(adults, returnDate, children, infants, travelClass, nonStop, maxPrice, max) ==
    build_optional_params(
        [originLocationCode |-> "'JFK'", destinationLocationCode |-> "'LAX'",
         departureDate |-> "'2025-06-15'", adults |-> adults],
        [returnDate |-> returnDate, children |-> children, infants |-> infants,
         travelClass |-> travelClass, includedAirlineCodes |-> "None",
         excludedAirlineCodes |-> "None", nonStop |-> nonStop,
         currencyCode |-> "None", maxPrice |-> maxPrice, max |-> max],
        Some({"children", "infants", "nonStop", "maxPrice", "max"}))

\* the params search_hotels_amadeus_by_city / _geocode hand to the SDK
search_hotels_amadeus_params(required_params, radius, radiusUnit, amenities) ==
    build_optional_params(
        required_params,
        [radius |-> radius, radiusUnit |-> radiusUnit, chainCodes |-> "None",
         amenities |-> amenities, ratings |-> "None", hotelSource |-> "None"],
        Some({"radius"}))

----------------------------------------------------------------------------
(* helpers.py: accessibility extractors.  An amenities entry is a dict with
   an id, a dict without one, a string or None; the `amenities` value of a
   hotel property is missing, a list of entries, or null. *)

WheelchairAmenityId == 53

SeqsUpTo(S, n) == UNION {[1..m -> S] : m \in 0..n}

HotelProperties ==
    LET AmenityEntries ==
            [kind : {"dict"}, has_id : {TRUE}, id : {1, WheelchairAmenityId}]
            \cup [kind : {"dict", "str", "None"}, has_id : {FALSE}, id : {0}]
    IN  [amenities_is : {"missing", "null"}, amenities : {<<>>}]
        \cup [amenities_is : {"list"},
              amenities : SeqsUpTo(AmenityEntries, MaxAmenities)]

\* a comprehension filter that looks for an id in any entry
KeepsAmenity_NoTypeCheck(a) == a.kind # "dict" \/ a.has_id

\* isinstance(a, dict) and "id" in a
KeepsAmenity(a) == a.kind = "dict" /\ a.has_id

\* the value handed back by an extractor that raised
Raised(cls) ==
    [raised |-> cls, wheelchair_accessible |-> FALSE,
     accessible_room_available |-> FALSE, wheelchair_amenity_id |-> 0,
     amenities |-> <<>>]

\* extract_hotel_accessibility: iterating null raises TypeError, and a.get
\* on an entry that is not a dict raises AttributeError
extract_hotel_accessibility(hotel_property) ==
    LET amenities == hotel_property.amenities
        kept == SelectSeq(amenities, KeepsAmenity)
        amenity_ids == [i \in 1..Len(kept) |-> kept[i].id]
        wheelchair_accessible == WheelchairAmenityId \in Range(amenity_ids)
    IN  IF hotel_property.amenities_is = "null"
        THEN Raised("TypeError")
        ELSE IF \E i \in 1..Len(kept) : kept[i].kind # "dict"
        THEN Raised("AttributeError")
        ELSE [raised |-> "",
              wheelchair_accessible |-> wheelchair_accessible,
              accessible_room_available |-> wheelchair_accessible,
              wheelchair_amenity_id |-> WheelchairAmenityId,
              amenities |-> amenities]

\* a facility is a dict with a description, a dict with a name only, or a
\* string; a text is a sequence of fragments
FacilityWords ==
    {"WiFi", "Elevator", "WHEELCHAIR", "ramp", "Accessible", "mobility",
     "Parking", "bathroom"}

HotelData ==
    LET Texts == {<<w>> : w \in FacilityWords}
        Facilities ==
            [kind : {"dict"}, has_description : BOOLEAN, text : Texts]
            \cup [kind : {"str"}, has_description : {FALSE}, text : Texts]
    IN  [facilities_is : {"missing", "null"}, facilities : {<<>>}]
        \cup [facilities_is : {"list"},
              facilities : SeqsUpTo(Facilities, MaxFacilities)]

\* a lower() that leaves the text as it is
Lower_AsIs(w) == w

\* str.lower on the fragments and the unit names of the model
Lower(w) ==
    CASE w = "WiFi" -> "wifi"
      [] w = "Elevator" -> "elevator"
      [] w = "WHEELCHAIR" -> "wheelchair"
      [] w = "Accessible" -> "accessible"
      [] w = "Parking" -> "parking"
      [] w = "KM" -> "km"
      [] w = "Miles" -> "miles"
      [] w = "NM" -> "nm"
      [] w = "Feet" -> "feet"
      [] OTHER -> w

accessibility_keywords ==
    {"wheelchair", "accessible", "mobility", "elevator", "ramp", "parking",
     "bathroom"}

\* facility.get("description", str(facility)) for a dict, str(facility)
\* otherwise: the repr of a dict quotes its name
FacilityText(facility) ==
    IF facility.kind = "dict" /\ ~facility.has_description
    THEN <<"{'name': '">> \o facility.text \o <<"'}">>
    ELSE facility.text

\* extract_amadeus_hotel_accessibility
extract_amadeus_hotel_accessibility(hotel_data) ==
    LET facilities == hotel_data.facilities
        facility_list == [i \in 1..Len(facilities) |-> FacilityText(facilities[i])]
        has_accessibility ==
            \E i \in 1..Len(facility_list) :
                \E j \in 1..Len(facility_list[i]) :
                    Lower(facility_list[i][j]) \in accessibility_keywords
    IN  [raised |-> "",
         wheelchair_accessible |-> has_accessibility,
         accessible_room_available |-> has_accessibility,
         facility_list |-> facility_list]

----------------------------------------------------------------------------
(* helpers.py: format_amadeus_response on a body of its own.  A dict is a
   function from its keys to the repr of its values; the outcome names the
   dict handed back and the caller's object after the call. *)

\* a normalizer that stamps the caller's dict itself
format_amadeus_response_InPlace(response_body) ==
    LET result == [k \in DOMAIN response_body.dict \cup {"provider", "search_timestamp"} |->
                      CASE k = "provider" -> "'Amadeus GDS'"
                        [] k = "search_timestamp" -> "'2025-06-15T12:00:00'"
                        [] OTHER -> response_body.dict[k]]
    IN  [raised |-> "", result |-> result,
         response_body |-> [response_body EXCEPT !.dict = result]]

\* format_amadeus_response: a dict is copied and the copy stamped; anything
\* else is stamped itself, which a list or None answers with TypeError
format_amadeus_response_of(response_body) ==
    IF response_body.is = "dict"
    THEN LET copy == response_body.dict
             result == [k \in DOMAIN copy \cup {"provider", "search_timestamp"} |->
                           CASE k = "provider" -> "'Amadeus GDS'"
                             [] k = "search_timestamp" -> "'2025-06-15T12:00:00'"
                             [] OTHER -> copy[k]]
         IN  [raised |-> "", result |-> result, response_body |-> response_body]
    ELSE [raised |-> "TypeError", result |-> <<>>, response_body |-> response_body]

----------------------------------------------------------------------------
(* sanitize_url_for_logging, which helpers.py of this tree does not define:
   modelled from its described contract.  A URL is its path segments and its
   query parameters, <<name, value>> in order. *)

\* a sanitizer that knows the path form alone
sanitize_url_for_logging_PathOnly(url) ==
    [url EXCEPT !.path = [i \in DOMAIN url.path |->
        IF i > 1 /\ url.path[i - 1] = "v6" /\ url.path[i] \in {"4b9d09c3", "abc123"}
        THEN "[REDACTED]"
        ELSE url.path[i]]]

\* the hexadecimal segment after /v6/ and the value of api_key become
\* [REDACTED]
sanitize_url_for_logging(url) ==
    [path |-> [i \in DOMAIN url.path |->
        IF i > 1 /\ url.path[i - 1] = "v6" /\ url.path[i] \in {"4b9d09c3", "abc123"}
        THEN "[REDACTED]"
        ELSE url.path[i]],
     query |-> [i \in DOMAIN url.query |->
        IF url.query[i][1] = "api_key"
        THEN <<"api_key", "[REDACTED]">>
        ELSE url.query[i]]]

----------------------------------------------------------------------------
(* server.py: calculate_distance.  geodesic hands back a distance, given here
   in metres, or raises ValueError for a latitude out of range; values are
   counted in hundredths of their unit. *)

\* n / d rounded to the nearest integer
RoundDiv(n, d) == (2 * n + d) \div (2 * d)

\* round(distance.kilometers, 2), round(distance.miles, 2) and
\* round(distance.nautical, 2): 1 mile is 1609.344 m, 1 nautical mile 1852 m
Kilometers(metres) == RoundDiv(metres, 10)
Miles(metres) == RoundDiv(metres * 100000, 1609344)
Nautical(metres) == RoundDiv(metres * 100, 1852)

calculate_distance(unit, g) ==
    IF g.kind # "distance"
    THEN ErrorMap(<<"Distance calculation error: ", g.kind>>)
    ELSE LET distance_value ==
                 IF Lower(unit) = "miles"
                 THEN Miles(g.metres)
                 ELSE IF Lower(unit) = "nm"
                 THEN Nautical(g.metres)
                 ELSE Kilometers(g.metres)
         IN  [type |-> "map",
              keys |-> {"point1", "point2", "distance", "all_units",
                        "calculation_timestamp"},
              error |-> <<>>, items |-> 0,
              distance |-> [value |-> distance_value, unit |-> Lower(unit)],
              all_units |-> [kilometers |-> Kilometers(g.metres),
                             miles |-> Miles(g.metres),
                             nautical_miles |-> Nautical(g.metres)]]

----------------------------------------------------------------------------
(* helpers.py: extract_flight_accessibility_from_amadeus.  travelerPricings
   and fareDetailsBySegment are missing, null or a list; an entry of either
   list is a dict or a bare string. *)

FlightOffers ==
    LET FareDetails ==
            [is : {"missing", "null"}, list : {<<>>}]
            \cup [is : {"list"}, list : SeqsUpTo({"dict", "str"}, MaxDetails)]
        Pricings ==
            [kind : {"dict"}, fareDetailsBySegment : FareDetails]
            \cup [kind : {"str"},
                  fareDetailsBySegment : {[is |-> "missing", list |-> <<>>]}]
    IN  [travelerPricings_is : {"missing", "null"}, travelerPricings : {<<>>}]
        \cup [travelerPricings_is : {"list"},
              travelerPricings : SeqsUpTo(Pricings, MaxPricings)]

\* the exception the loop body raises on one pricing ("" when none):
\* pricing.get on a str, iterating None, detail.get on a str
PricingException(pricing) ==
    IF pricing.kind # "dict"
    THEN "AttributeError"
    ELSE IF pricing.fareDetailsBySegment.is = "null"
    THEN "TypeError"
    ELSE IF \E i \in DOMAIN pricing.fareDetailsBySegment.list :
                pricing.fareDetailsBySegment.list[i] # "dict"
    THEN "AttributeError"
    ELSE ""

extract_flight_accessibility_from_amadeus(flight_offer) ==
    LET traveler_pricings == flight_offer.travelerPricings
        failing == {i \in DOMAIN traveler_pricings :
                       PricingException(traveler_pricings[i]) # ""}
        raised ==
            IF flight_offer.travelerPricings_is = "null"
            THEN "TypeError"
            ELSE IF failing = {}
            THEN ""
            ELSE PricingException(
                     traveler_pricings[CHOOSE i \in failing :
                                           \A j \in failing : i <= j])
    IN  IF raised # ""
        THEN [raised |-> raised]
        ELSE [raised |-> "",
              wheelchair_available |-> FALSE,
              wheelchair_stowage |-> FALSE,
              accessible_lavatory |-> FALSE,
              extra_legroom_available |-> FALSE,
              special_service_codes |-> "None",
              companion_required |-> "None",
              special_meals_available |-> FALSE,
              notes |-> "Check with airline for specific accessibility accommodations"]

----------------------------------------------------------------------------
(* server.py: the request search_events_serpapi builds.  The filters are
   reprs of Optional[str] values; an f-string is the sequence of its parts. *)

\* a builder whose date filter is not replaced by the event type
search_events_serpapi_request_DateWins(date_filter, event_type) ==
    LET params == [q |-> "'concerts'", hl |-> "'en'", gl |-> "'us'"]
        filter == IF Truthy(date_filter)
                  THEN <<"date:", date_filter>>
                  ELSE <<"event_type:", event_type>>
    IN  [params |-> IF Truthy(date_filter) \/ Truthy(event_type)
                    THEN [k \in DOMAIN params \cup {"htichips"} |->
                             IF k = "htichips" THEN filter ELSE params[k]]
                    ELSE params,
         search_metadata |-> [date_filter |-> date_filter, event_type |-> event_type]]

\* the params handed to serpapi_client.search_events and the filters echoed
\* in search_metadata: the second assignment to params["htichips"] replaces
\* the first
search_events_serpapi_request(date_filter, event_type) ==
    LET params == [q |-> "'concerts'", hl |-> "'en'", gl |-> "'us'"]
        with_date ==
            IF Truthy(date_filter)
            THEN [k \in DOMAIN params \cup {"htichips"} |->
                     IF k = "htichips" THEN <<"date:", date_filter>> ELSE params[k]]
            ELSE params
        with_type ==
            IF Truthy(event_type)
            THEN [k \in DOMAIN with_date \cup {"htichips"} |->
                     IF k = "htichips"
                     THEN <<"event_type:", event_type>>
                     ELSE with_date[k]]
            ELSE with_date
    IN  [params |-> with_type,
         search_metadata |-> [date_filter |-> date_filter, event_type |-> event_type]]

----------------------------------------------------------------------------
(* The helpers applied on their own: a caller picks a helper and its inputs
   (pc "helper"), the helper returns (pc "applied"). *)

HelperInit ==
    /\ env = [SERPAPI_KEY |-> NoKey, EXCHANGE_RATE_API_KEY |-> NoKey,
              AMADEUS_API_KEY |-> NoKey, AMADEUS_API_SECRET |-> NoKey]
    /\ serpapi_api_key = NoKey
    /\ fx_api_key = NoKey
    /\ amadeus_client = NoClient
    /\ GEOLOCATOR_INSTANCE = None
    /\ geocoding_client = None
    /\ pc = "helper"
    /\ call = NoCall
    /\ threads = NoThreads
    /\ geocoding = NoGeo

\* helper op applied to args hands back out
Applies(op, args, out) ==
    /\ pc' = "applied"
    /\ call' = [op |-> op, args |-> args, out |-> out]
    /\ UNCHANGED <<config, threads, geocoding, GEOLOCATOR_INSTANCE, geocoding_client>>

\* required and optional names are disjoint, as at every call site
Apply_build_optional_params ==
    /\ pc = "helper"
    /\ \E r \in Dicts({"cityCode", "adults"}, {"'PAR'"}),
          o \in Dicts({"radius", "radiusUnit", "nonStop"},
                      {"None", "0", "5", "False", "True", "''", "'KM'", "[]",
                       "['SPA']"}),
          f \in {None} \cup {Some(F) : F \in SUBSET {"radius", "radiusUnit",
                                                    "nonStop"}} :
        Applies("build_optional_params",
                [required_params |-> r, optional_params |-> o,
                 none_check_fields |-> f],
                build_optional_params(r, o, f))

Apply_search_flights_amadeus_params ==
    /\ pc = "helper"
    /\ \E c \in {"None", "0", "5"}, tc \in {"None", "''", "'KM'"},
          ns \in {"None", "False", "True"}, mp \in {"None", "0", "5"} :
        Applies("search_flights_amadeus_params",
                [children |-> c, travelClass |-> tc, nonStop |-> ns, maxPrice |-> mp],
                search_flights_amadeus_params("1", "None", c, "None", tc, ns, mp, "5"))

Apply_search_hotels_amadeus_params ==
    /\ pc = "helper"
    /\ \E r \in {[cityCode |-> "'PAR'"], [latitude |-> "5", longitude |-> "5"]},
          rad \in {"None", "0", "5"}, ru \in {"None", "''", "'KM'"},
          am \in {"None", "[]", "['SPA']"} :
        Applies("search_hotels_amadeus_params",
                [required_params |-> r, radius |-> rad, radiusUnit |-> ru,
                 amenities |-> am],
                search_hotels_amadeus_params(r, rad, ru, am))

Apply_extract_hotel_accessibility ==
    /\ pc = "helper"
    /\ \E h \in HotelProperties :
        Applies("extract_hotel_accessibility", [hotel_property |-> h],
                extract_hotel_accessibility(h))

Apply_extract_amadeus_hotel_accessibility ==
    /\ pc = "helper"
    /\ \E h \in HotelData :
        Applies("extract_amadeus_hotel_accessibility", [hotel_data |-> h],
                extract_amadeus_hotel_accessibility(h))

\* a conversion whose GET is answered with a success envelope carrying rate r
Apply_convert ==
    /\ pc = "helper"
    /\ \E op \in {"ExchangeRateClient.convert", "convert_currency"},
          a \in 1..MaxAmountIn \cup {DefaultAmount, 1000},
          r \in 1..MaxRateIn \cup {92}, h \in BOOLEAN :
        LET up == [status |-> "ok", items |-> 0, quotes_url |-> FALSE,
                   envelope |-> "success", rate |-> Some(r)]
            e == [env EXCEPT !.EXCHANGE_RATE_API_KEY = "fx-key-1"]
        IN  Applies(op, [from |-> "usd", to |-> "eur", amount |-> a,
                         half_up |-> h, up |-> up],
                    IF op = "convert_currency"
                    THEN convert_currency(e, "usd", "eur", a, h, up)
                    ELSE ExchangeRateClient_convert(ExchangeRateClient_api_key(e),
                                                    "usd", "eur", a, h, up))

Apply_format_amadeus_response ==
    /\ pc = "helper"
    /\ \E b \in [is : {"dict"},
                 dict : Dicts({"data", "meta", "provider", "search_timestamp"},
                              {"[]", "'x'"})]
                \cup [is : {"list", "None"}, dict : {<<>>}] :
        Applies("format_amadeus_response", [response_body |-> b],
                format_amadeus_response_of(b))

\* a path segment after v6 is an API key when hexadecimal; a query value is
\* one when its name is api_key
Apply_sanitize_url_for_logging ==
    /\ pc = "helper"
    /\ \E p \in SeqsUpTo({"v6", "4b9d09c3", "abc123", "pair"}, MaxSegments),
          q \in SeqsUpTo({<<"api_key", "secret123">>, <<"api_key", "secret456">>,
                          <<"q", "test">>, <<"limit", "10">>}, MaxParams) :
        Applies("sanitize_url_for_logging", [url |-> [path |-> p, query |-> q]],
                sanitize_url_for_logging([path |-> p, query |-> q]))

Apply_calculate_distance ==
    /\ pc = "helper"
    /\ \E u \in {"km", "KM", "miles", "Miles", "nm", "NM", "feet", "Feet", "mi", ""},
          g \in [kind : {"distance"}, metres : {0, 1000, 8047}]
                \cup [kind : {"ValueError"}, metres : {0}] :
        Applies("calculate_distance", [unit |-> u, geodesic |-> g],
                calculate_distance(u, g))

Apply_extract_flight_accessibility_from_amadeus ==
    /\ pc = "helper"
    /\ \E o \in FlightOffers :
        Applies("extract_flight_accessibility_from_amadeus", [flight_offer |-> o],
                extract_flight_accessibility_from_amadeus(o))

Apply_search_events_serpapi_request ==
    /\ pc = "helper"
    /\ \E d \in {"None", "''", "'today'", "'week'"},
          e \in {"None", "''", "'Virtual-Event'"} :
        Applies("search_events_serpapi_request",
                [date_filter |-> d, event_type |-> e],
                search_events_serpapi_request(d, e))

\* the caller takes the value
HelperReturns ==
    /\ pc = "applied"
    /\ pc' = "helper"
    /\ call' = NoCall
    /\ UNCHANGED <<config, threads, geocoding, GEOLOCATOR_INSTANCE, geocoding_client>>

HelperNext ==
    \/ Apply_build_optional_params
    \/ Apply_search_flights_amadeus_params
    \/ Apply_search_hotels_amadeus_params
    \/ Apply_extract_hotel_accessibility
    \/ Apply_extract_amadeus_hotel_accessibility
    \/ Apply_convert
    \/ Apply_format_amadeus_response
    \/ Apply_sanitize_url_for_logging
    \/ Apply_calculate_distance
    \/ Apply_extract_flight_accessibility_from_amadeus
    \/ Apply_search_events_serpapi_request
    \/ HelperReturns

HelperSpec == HelperInit /\ [][HelperNext]_vars

----------------------------------------------------------------------------
(* The geocoding code called from several threads.  A thread runs
   GeocodingClient() and then a method of it, or the tool geocode_location;
   each runs _get_or_create_geolocator step by step (the test of the slot,
   the construction with the store, the read of the slot for the return) and then
   calls a limiter of the pair it was handed.  A RateLimiter admits a call
   when min_delay_seconds have passed since the call it admitted last; the
   model keeps, per limiter, the whole seconds since that call, counted up to
   min_delay_seconds. *)

GeoOps ==
    {"GeocodingClient.geocode", "GeocodingClient.reverse_geocode", "geocode_location"}
DirectionOf(op) ==
    IF op = "GeocodingClient.reverse_geocode" THEN "reverse" ELSE "forward"
\* the limiter of a pair that serves a direction
LimiterOf(pair, d) == IF d = "forward" THEN pair[1] ELSE pair[2]

GeoInit ==
    /\ env = [SERPAPI_KEY |-> NoKey, EXCHANGE_RATE_API_KEY |-> NoKey,
              AMADEUS_API_KEY |-> NoKey, AMADEUS_API_SECRET |-> NoKey]
    /\ serpapi_api_key = NoKey
    /\ fx_api_key = NoKey
    /\ amadeus_client = NoClient
    /\ GEOLOCATOR_INSTANCE = None
    /\ geocoding_client = None
    /\ pc = "threads"
    /\ call = NoCall
    /\ threads = NoThreads
    /\ geocoding = NoGeo

\* thread t moves to `to`; what no thread step touches stays
Step(t, to) ==
    /\ threads' = [threads EXCEPT ![t] = to]
    /\ UNCHANGED <<config, geocoding_client, pc, call>>

\* a caller starts GeocodingClient() or geocode_location: get_geolocator()
Thread_begin(t) ==
    /\ threads[t].pc = "idle"
    /\ Step(t, [pc |-> "test", pair |-> None])
    /\ UNCHANGED <<GEOLOCATOR_INSTANCE, geocoding>>

\* a caller uses the GeocodingClient it already has
Thread_reuse(t) ==
    /\ threads[t].pc = "idle"
    /\ threads[t].pair # None
    /\ Step(t, [threads[t] EXCEPT !.pc = "client_call"])
    /\ UNCHANGED <<GEOLOCATOR_INSTANCE, geocoding>>

\* if _GEOLOCATOR_INSTANCE is None
Thread_test(t) ==
    /\ threads[t].pc = "test"
    /\ Step(t, [threads[t] EXCEPT
                   !.pc = IF GEOLOCATOR_INSTANCE = None THEN "initialize" ELSE "return"])
    /\ UNCHANGED <<GEOLOCATOR_INSTANCE, geocoding>>

\* geolocator = Nominatim(user_agent=...), local to the thread, and then
\* _GEOLOCATOR_INSTANCE = (RateLimiter(...), RateLimiter(...)) around it
Thread_initialize(t) ==
    /\ threads[t].pc = "initialize"
    /\ GEOLOCATOR_INSTANCE' = LimiterPair(geocoding.built + 1)
    /\ geocoding' = [geocoding EXCEPT
                  !.built = @ + 1,
                  !.replaced = @ \/ GEOLOCATOR_INSTANCE # None]
    /\ Step(t, [threads[t] EXCEPT !.pc = "return"])

\* return _GEOLOCATOR_INSTANCE
Thread_return(t) ==
    /\ threads[t].pc = "return"
    /\ geocoding' = [geocoding EXCEPT !.returned = @ \cup {GEOLOCATOR_INSTANCE}]
    /\ Step(t, [threads[t] EXCEPT !.pc = "call", !.pair = GEOLOCATOR_INSTANCE])
    /\ UNCHANGED GEOLOCATOR_INSTANCE

\* the limiter of pair that serves direction d admits a call and the request
\* reaches the provider
Admits(pair, d) ==
    LET l == LimiterOf(pair, d)
        since == geocoding.since_last_call[d]
    IN  /\ IF IsNone(since[l]) THEN TRUE ELSE since[l][1] >= min_delay_seconds
        /\ geocoding' = [geocoding EXCEPT
                      !.since_last_call[d][l] = Some(0),
                      !.too_close[d] =
                          @ \/ \E n \in Threads :
                                  ~IsNone(since[n]) /\ since[n][1] < min_delay_seconds]

\* self.geocode_limiter(...) / self.reverse_limiter(...) of a fresh or a kept
\* GeocodingClient, or geocode(...) in geocode_location, whose local pair
\* goes with the call
Thread_call(t) ==
    /\ threads[t].pc \in {"call", "client_call"}
    /\ \E op \in GeoOps :
        /\ threads[t].pc = "client_call" => op # "geocode_location"
        /\ Admits(threads[t].pair, DirectionOf(op))
        /\ Step(t, [threads[t] EXCEPT
                       !.pc = "idle",
                       !.pair = IF op = "geocode_location" THEN None ELSE @])
    /\ UNCHANGED GEOLOCATOR_INSTANCE

\* a second passes
Tick ==
    /\ geocoding' =
        [geocoding EXCEPT
           !.since_last_call =
               [d \in Directions |-> [n \in Threads |->
                   IF IsNone(@[d][n])
                   THEN None
                   ELSE Some(Min(@[d][n][1] + 1, min_delay_seconds))]]]
    /\ UNCHANGED <<config, GEOLOCATOR_INSTANCE, geocoding_client, pc, call, threads>>

GeoNext ==
    \/ \E t \in Threads : Thread_begin(t)
    \/ \E t \in Threads : Thread_reuse(t)
    \/ \E t \in Threads : Thread_test(t)
    \/ \E t \in Threads : Thread_initialize(t)
    \/ \E t \in Threads : Thread_return(t)
    \/ \E t \in Threads : Thread_call(t)
    \/ Tick

GeoSpec == GeoInit /\ [][GeoNext]_vars

----------------------------------------------------------------------------
(* Properties *)

Returned == pc = "returned"

SerpTools ==
    {"search_flights_serpapi", "search_hotels_serpapi", "search_events_serpapi"}
WrapperOps ==
    {"Wrapper.search_flights", "Wrapper.search_hotels_by_city",
     "Wrapper.search_hotels_by_geocode", "Wrapper.search_hotel_offers",
     "Wrapper.search_activities", "Wrapper.get_activity_details"}
AmadeusTools ==
    {"search_flights_amadeus", "search_hotels_amadeus_by_city",
     "search_hotels_amadeus_geocode", "search_hotel_offers_amadeus",
     "search_activities_amadeus", "get_activity_details_amadeus"}
FlightSearches == {"Wrapper.search_flights", "search_flights_amadeus"}
ConvertOps == {"ExchangeRateClient.convert", "convert_currency"}
TransportFailures == {"timeout", "connection", "http_error"}

\* the adults value a flight search works with (the wrapper defaults to 1)
AdultsOf(c) == IF IsNone(c.args.adults) THEN 1 ELSE c.args.adults[1]
\* a passenger count that is absent counts as 0
CountOf(o) == IF IsNone(o) THEN 0 ELSE o[1]

AdultsMessages == {<<"Adults must be between 1 and 9">>}
SeatedMessages ==
    {<<"Total seated travelers cannot exceed 9">>,
     <<"Total number of seated travelers (adults + children) cannot exceed 9">>}
InfantsMessages ==
    {<<"Infants cannot exceed adults">>,
     <<"Number of infants cannot exceed number of adults">>}

\* C1: when the SerpAPI client hands back {"error": ...} to a consumer-search
\* tool (key missing, timeout, connection error, non-2xx), the tool's value
\* carries an `error` key; it is never a success-shaped map with empty lists.
C1_SerpToolSurfacesError ==
    (Returned /\ call.op \in SerpTools /\ IsError(call.inner))
        => IsError(call.result)

\* C2: AmadeusClientWrapper.search_flights returns the JSON error about adults
\* and calls the SDK zero times for every adults outside 1..9, whatever the
\* other parameters; for adults 1 and 9 without children or infants it calls
\* the SDK.
C2_WrapperAdultsRange ==
    (Returned /\ call.op = "Wrapper.search_flights")
        => /\ AdultsOf(call) \notin 1..9
                => /\ call.result.type = "json"
                   /\ IsError(call.result)
                   /\ call.result.error \in AdultsMessages
                   /\ call.sdk = 0
           /\ (/\ AdultsOf(call) \in {1, 9}
               /\ CountOf(call.args.children) = 0
               /\ CountOf(call.args.infants) = 0)
                => call.sdk = 1

C2_Witness ==
    /\ Returned
    /\ call.op = "Wrapper.search_flights"
    /\ call.args.adults = Some(10)
    /\ call.result.error \in AdultsMessages
    /\ call.sdk = 0

\* C3: the tool search_flights_amadeus returns a validation error and never
\* calls the SDK for every adults outside 1..9, adults = 0 and 10 included.
C3_ToolAdultsRange ==
    (Returned /\ call.op = "search_flights_amadeus" /\ AdultsOf(call) \notin 1..9)
        => /\ IsError(call.result)
           /\ call.sdk = 0

\* C4: in both GDS flight searches, with adults in 1..9, infants > adults is
\* rejected with an error and no SDK call, and with infants <= adults the
\* infants rule does not reject.
C4_InfantsRule ==
    (Returned /\ call.op \in FlightSearches /\ AdultsOf(call) \in 1..9)
        => /\ CountOf(call.args.infants) > AdultsOf(call)
                => (IsError(call.result) /\ call.sdk = 0 /\ call.raised = "")
           /\ CountOf(call.args.infants) <= AdultsOf(call)
                => call.result.error \notin InfantsMessages

C4_Witness ==
    /\ Returned
    /\ call.op = "search_flights_amadeus"
    /\ AdultsOf(call) = 1
    /\ call.args.infants = Some(2)
    /\ call.result.error \in InfantsMessages
    /\ call.sdk = 0

ConvertUnderKey(c, k) ==
    IF c.op = "ExchangeRateClient.convert"
    THEN ExchangeRateClient_convert(k, c.args.from, c.args.to, c.args.amount,
                                    c.args.half_up, c.up).result
    ELSE convert_currency([env EXCEPT !.EXCHANGE_RATE_API_KEY = k],
                          c.args.from, c.args.to, c.args.amount,
                          c.args.half_up, c.up).result

\* C6: for every transport failure of a currency conversion (timeout,
\* connection error, non-2xx) the error message does not contain the API key
\* of the request URL, and the error result is the same under any other value
\* of EXCHANGE_RATE_API_KEY.
C6_NoKeyInError ==
    (Returned /\ call.op \in ConvertOps /\ call.up.status \in TransportFailures)
        => /\ IsError(call.result)
           /\ \A k \in FxKeys : k \notin Range(call.result.error)
           /\ \A k \in FxKeys : ConvertUnderKey(call, k) = call.result

\* C7: every AmadeusClientWrapper method returns a JSON string and lets no
\* exception escape, whatever the SDK call does; when the SDK raises or hands
\* back no dict body the JSON carries an `error` key.
C7_WrapperNeverRaises ==
    (Returned /\ call.op \in WrapperOps)
        => /\ call.raised = ""
           /\ call.result.type = "json"
           /\ (call.sdk = 1 /\ call.up.kind # "body") => IsError(call.result)
           /\ (call.sdk = 1 /\ call.up.kind = "body") => ~IsError(call.result)

C7_Witness ==
    /\ Returned
    /\ call.op = "Wrapper.get_activity_details"
    /\ call.up.kind = "Exception"
    /\ call.raised = ""
    /\ IsError(call.result)

\* C8: the HTTP wrappers let no transport failure escape: on a timeout, a
\* connection error or a non-2xx status the SerpAPIClient methods return
\* {"error": ...} and make_nws_request returns None; on a 2xx answer they
\* return the parsed JSON body.
C8_HttpWrappers ==
    (Returned /\ call.op \in SerpMethods \cup {"make_nws_request"})
        => /\ call.raised = ""
           /\ (call.op \in SerpMethods /\ call.up.status \in TransportFailures)
                => (call.result.type = "map" /\ IsError(call.result))
           /\ (call.op = "make_nws_request" /\ call.up.status \in TransportFailures)
                => call.result = NoneResult
           /\ call.up.status = "ok" => call.result = JsonBody(call.up)

C8_Witness ==
    /\ Returned
    /\ call.op = "search_hotels"
    /\ call.up.status = "timeout"
    /\ call.raised = ""
    /\ IsError(call.result)

\* the key that call c needs is not in the environment
KeyMissing(c) ==
    \/ c.op \in SerpMethods /\ env.SERPAPI_KEY = NoKey
    \/ c.op \in ConvertOps /\ env.EXCHANGE_RATE_API_KEY = NoKey
    \/ c.op \in AmadeusTools
        /\ (env.AMADEUS_API_KEY = NoKey \/ env.AMADEUS_API_SECRET = NoKey)

\* C9: with a required API key absent the call returns an error result,
\* raises nothing and performs no upstream request: the SerpAPIClient methods
\* without SERPAPI_KEY, both currency conversions without
\* EXCHANGE_RATE_API_KEY, every Amadeus tool without AMADEUS_API_KEY or
\* AMADEUS_API_SECRET.
C9_MissingKey ==
    (Returned /\ KeyMissing(call))
        => /\ IsError(call.result)
           /\ call.raised = ""
           /\ call.http = 0
           /\ call.sdk = 0

C9_Witness ==
    /\ Returned
    /\ call.op = "search_hotels_amadeus_by_city"
    /\ env.AMADEUS_API_KEY # NoKey
    /\ env.AMADEUS_API_SECRET = NoKey
    /\ IsError(call.result)
    /\ call.sdk = 0

\* C10: no retry: every invocation issues at most one upstream request (one
\* HTTP GET, one SDK call or one geocoder call), also after a failure, and a
\* successful make_nws_request issues exactly one.
C10_NoRetry ==
    Returned
        => /\ call.http + call.sdk + call.geo <= 1
           /\ (call.op = "make_nws_request" /\ call.result # NoneResult)
                => call.http = 1

C10_Witness ==
    /\ Returned
    /\ call.op = "search_flights"
    /\ call.up.status = "http_error"
    /\ call.http = 1
    /\ IsError(call.result)

HotelOfferOps == {"Wrapper.search_hotel_offers", "search_hotel_offers_amadeus"}
HotelOfferMessages == {<<"Either cityCode or hotelIds must be provided">>}
\* neither cityCode nor hotelIds was supplied
NoHotelTarget(c) == c.args.cityCode = "" /\ c.args.hotelIds = ""

\* C11 as stated: a hotel-offer search without cityCode and hotelIds returns
\* 'Either cityCode or hotelIds must be provided' with no SDK call, and with
\* at least one of them the SDK is called exactly once.
C11_HotelOffersAsStated ==
    (Returned /\ call.op \in HotelOfferOps)
        => /\ NoHotelTarget(call)
                => /\ call.result.error \in HotelOfferMessages
                   /\ call.sdk = 0
           /\ ~NoHotelTarget(call) => call.sdk = 1

\* C11: a hotel-offer search without cityCode and hotelIds returns 'Either
\* cityCode or hotelIds must be provided' with no SDK call; with at least one
\* of them the SDK is called exactly once by the wrapper, and by the tool
\* when the lifespan built an Amadeus client (without one the tool returns an
\* error and calls nothing).
C11_HotelOffers ==
    (Returned /\ call.op \in HotelOfferOps)
        => /\ NoHotelTarget(call)
                => /\ IsError(call.result)
                   /\ call.result.error \in HotelOfferMessages
                   /\ call.raised = ""
                   /\ call.sdk = 0
           /\ (/\ ~NoHotelTarget(call)
               /\ (call.op = "Wrapper.search_hotel_offers"
                     \/ amadeus_client = SdkClient))
                => call.sdk = 1
           /\ (/\ ~NoHotelTarget(call)
               /\ call.op = "search_hotel_offers_amadeus"
               /\ amadeus_client = NoClient)
                => (call.sdk = 0 /\ IsError(call.result))

C11_Witness ==
    /\ Returned
    /\ call.op = "Wrapper.search_hotel_offers"
    /\ call.args.cityCode = ""
    /\ call.args.hotelIds = "H1"
    /\ call.sdk = 1
    /\ ~IsError(call.result)

\* the parameters of a search_flights_serpapi call that are invalid
InvalidFlightParams(a) ==
    \/ validate_date_format(a.outbound_date, "outbound_date")[1] = "ValueError"
    \/ validate_currency_code(a.currency)[1] = "ValueError"
    \/ a.travel_class \notin 1..NumTravelClasses

\* C12: a tool call with an invalid parameter (a date that is not YYYY-MM-DD,
\* a currency code that is not 3 letters, travel_class outside 1..4 in
\* search_flights_serpapi) returns a validation error and performs no
\* upstream request (stated for a server whose SERPAPI_KEY is set).
C12_ValidatedBeforeNetwork ==
    (/\ Returned
     /\ call.op = "search_flights_serpapi"
     /\ serpapi_api_key # NoKey
     /\ InvalidFlightParams(call.args))
        => /\ IsError(call.result)
           /\ call.http = 0

\* C13: every GDS entry point declared `-> str` (the six wrapper methods and
\* the six Amadeus tools) returns a JSON-encoded string on every path
\* (success, validation error, provider error, unexpected error), never a
\* native map.
C13_GdsReturnsJson ==
    (Returned /\ call.op \in WrapperOps \cup AmadeusTools)
        => /\ call.raised = ""
           /\ call.result.type = "json"

Applied(op) == pc = "applied" /\ call.op = op

\* C14: build_optional_params keeps every required field; keeps an optional
\* field named in none_check_fields iff its value is not None (0 and False
\* stay); keeps any other optional field iff its value is truthy (None, 0,
\* "", [] and False go); adds no other key and changes no value.  The params
\* of search_flights_amadeus carry nonStop=False, and those of the hotel
\* searches carry no radius when it is unset.
C14_BuildOptionalParams ==
    /\ Applied("build_optional_params")
        => LET r == call.args.required_params
               o == call.args.optional_params
               f == IF IsNone(call.args.none_check_fields)
                    THEN {}
                    ELSE call.args.none_check_fields[1]
           IN  /\ DOMAIN r \subseteq DOMAIN call.out
               /\ \A k \in DOMAIN r : call.out[k] = r[k]
               /\ \A k \in DOMAIN o \cap f :
                    k \in DOMAIN call.out <=> o[k] # "None"
               /\ \A k \in DOMAIN o \ f :
                    k \in DOMAIN call.out
                        <=> o[k] \notin {"None", "0", "''", "[]", "False"}
               /\ DOMAIN call.out \subseteq DOMAIN r \cup DOMAIN o
               /\ \A k \in DOMAIN call.out \cap DOMAIN o : call.out[k] = o[k]
    /\ (Applied("search_flights_amadeus_params") /\ call.args.nonStop = "False")
        => ("nonStop" \in DOMAIN call.out /\ call.out.nonStop = "False")
    /\ (Applied("search_hotels_amadeus_params") /\ call.args.radius = "None")
        => "radius" \notin DOMAIN call.out

C14_Witness ==
    /\ Applied("build_optional_params")
    /\ call.args.none_check_fields = Some({"nonStop"})
    /\ "nonStop" \in DOMAIN call.args.optional_params
    /\ "radius" \in DOMAIN call.args.optional_params
    /\ call.args.optional_params["nonStop"] = "False"
    /\ call.args.optional_params["radius"] = "0"
    /\ "nonStop" \in DOMAIN call.out
    /\ "radius" \notin DOMAIN call.out

\* some entry of the amenities list is a dict whose id is 53
HasWheelchairEntry(h) ==
    \E i \in 1..Len(h.amenities) :
        /\ h.amenities[i].kind = "dict"
        /\ h.amenities[i].has_id
        /\ h.amenities[i].id = 53

KeywordFragments ==
    {"Elevator", "WHEELCHAIR", "ramp", "Accessible", "mobility", "Parking",
     "bathroom"}
MentionsKeyword(text) == \E j \in 1..Len(text) : text[j] \in KeywordFragments
\* facility f carries a description (a string facility is its own)
Described(f) == f.kind = "str" \/ f.has_description

\* what C16 says of the list: one entry per facility, in order, the
\* description where there is one; accessible_room_available follows
FacilityListAsClaimed(h, out) ==
    /\ out.raised = ""
    /\ out.accessible_room_available = out.wheelchair_accessible
    /\ Len(out.facility_list) = Len(h.facilities)
    /\ \A i \in 1..Len(h.facilities) :
        Described(h.facilities[i]) => out.facility_list[i] = h.facilities[i].text
    /\ h.facilities = <<>> => out.facility_list = <<>>

\* C16 as stated: wheelchair_accessible is true iff at least one facility
\* description contains one of the keywords, case-insensitively.
C16_KeywordsAsStated ==
    Applied("extract_amadeus_hotel_accessibility")
        => LET h == call.args.hotel_data
           IN  /\ call.out.wheelchair_accessible
                    <=> \E i \in 1..Len(h.facilities) :
                            /\ Described(h.facilities[i])
                            /\ MentionsKeyword(h.facilities[i].text)
               /\ FacilityListAsClaimed(h, call.out)

\* C16: extract_amadeus_hotel_accessibility returns wheelchair_accessible
\* true iff at least one facility's description, or the string form of a
\* facility that has no description, contains one of the keywords
\* wheelchair, accessible, mobility, elevator, ramp, parking, bathroom in any
\* letter case; accessible_room_available equals it; facility_list has one
\* entry per facility, in order, and is empty when there are no facilities.
C16_Keywords ==
    Applied("extract_amadeus_hotel_accessibility")
        => LET h == call.args.hotel_data
           IN  /\ call.out.wheelchair_accessible
                    <=> \E i \in 1..Len(h.facilities) :
                            MentionsKeyword(h.facilities[i].text)
               /\ FacilityListAsClaimed(h, call.out)

C16_Witness ==
    /\ Applied("extract_amadeus_hotel_accessibility")
    /\ Len(call.args.hotel_data.facilities) = 2
    /\ call.args.hotel_data.facilities[1].text = <<"WiFi">>
    /\ call.args.hotel_data.facilities[2].text = <<"WHEELCHAIR">>
    /\ call.args.hotel_data.facilities[2].has_description
    /\ call.out.wheelchair_accessible
    /\ Len(call.out.facility_list) = 2

\* C17: under any interleaving of get_geolocator() calls, concurrent first
\* calls included, the geocoder and its limiter pair are constructed at most
\* once, the module-level slot never changes once it is set (no store
\* replaces a pair), and every call returns the identical pair.
C17_InitializedOnce ==
    /\ geocoding.built <= 1
    /\ ~geocoding.replaced
    /\ Cardinality(geocoding.returned) <= 1

\* C18: any two consecutive forward-geocode requests of the process, through
\* any GeocodingClient or the tool geocode_location, reach the provider at
\* least 1 second apart, and likewise any two consecutive reverse-geocode
\* requests.
C18_RateLimit ==
    /\ ~geocoding.too_close["forward"]
    /\ ~geocoding.too_close["reverse"]

ForwardGeoOps == {"GeocodingClient.geocode", "geocode_location"}

\* C19: forward geocoding (GeocodingClient.geocode and geocode_location): when
\* the geocoder call returns no match the result is the error "Location ...
\* not found" and carries `suggestions`; when the call raises, the result is
\* an error without `suggestions`; no result has both coordinates and `error`.
C19_ForwardGeocodeErrors ==
    (pc = "returned" /\ call.op \in ForwardGeoOps) =>
        /\ call.raised = ""
        /\ (call.up.kind = "answer"
            /\ GeoMatches(call.args.exactly_one, call.up) = 0) =>
               /\ IsError(call.result)
               /\ "suggestions" \in call.result.keys
               /\ call.result.error = <<"Location '", "' not found">>
        /\ call.up.kind # "answer" =>
               /\ IsError(call.result)
               /\ "suggestions" \notin call.result.keys
        /\ ~("error" \in call.result.keys
             /\ call.result.keys
                  \cap {"latitude", "longitude", "coordinates"} # {})

\* the tool answered a geocoder call that found nothing
C19_Witness ==
    /\ pc = "returned"
    /\ call.op = "geocode_location"
    /\ call.up.kind = "answer"
    /\ call.up.items = 0
    /\ call.geo = 1
    /\ call.result.keys = {"error", "suggestions"}

\* the coordinates an entry of a forward geocoding result carries
EntryCoordinates(e) ==
    IF "coordinates" \in DOMAIN e
    THEN <<e.coordinates.latitude, e.coordinates.longitude>>
    ELSE IF {"latitude", "longitude"} \subseteq DOMAIN e
    THEN <<e.latitude, e.longitude>>
    ELSE <<>>

\* C20: forward geocoding with exactly_one True or False, by
\* GeocodingClient.geocode and by geocode_location, returns for each match the
\* provider's coordinates unchanged, the address and the raw provider payload,
\* plus a non-empty search_timestamp, and as many candidates as the provider
\* returned.
C20_ForwardGeocodeFields ==
    (pc = "returned" /\ call.op \in ForwardGeoOps /\ call.raised = ""
     /\ ~IsError(call.result)) =>
        LET provided == GeoResult(call.args.exactly_one, call.up)
            out == call.result.matches
        IN  /\ Len(out) = Len(provided)
            /\ Len(call.result.search_timestamp) > 0
            /\ \A i \in 1..Len(out) :
                /\ EntryCoordinates(out[i])
                       = <<provided[i].latitude, provided[i].longitude>>
                /\ "address" \in DOMAIN out[i]
                /\ out[i].address = provided[i].address
                /\ "raw_data" \in DOMAIN out[i]
                /\ out[i].raw_data = provided[i].raw

\* the currency a code names, whatever its casing
CurrencyOf(code) ==
    IF code \in {"usd", "Usd", "USD"} THEN "USD" ELSE "EUR"

\* the from_currency and to_currency fields of a conversion result
CurrencyFields(r) ==
    IF "search_metadata" \in DOMAIN r
    THEN <<r.search_metadata.from_currency, r.search_metadata.to_currency>>
    ELSE <<r.from_currency, r.to_currency>>

\* the outcome of conversion call c had its codes been f and t
ConvertWithCodes(c, f, t) ==
    IF c.op = "ExchangeRateClient.convert"
    THEN ExchangeRateClient_convert(fx_api_key, f, t, c.args.amount,
                                    c.args.half_up, c.up)
    ELSE convert_currency(env, f, t, c.args.amount, c.args.half_up, c.up)

\* C21: currency conversion normalizes case: for every casing of from_currency
\* and to_currency the path of the request URL and the from_currency and
\* to_currency fields of the result carry the upper-cased codes, and a call
\* whose codes differ only in letter case issues the same request and returns
\* the same currency fields.
C21_CaseNormalized ==
    (Returned /\ call.op \in ConvertOps /\ call.http = 1) =>
        LET from == CurrencyOf(call.args.from)
            to == CurrencyOf(call.args.to)
        IN  /\ call.url[5] = from
            /\ call.url[7] = to
            /\ (call.raised = "" /\ ~IsError(call.result)) =>
                   CurrencyFields(call.result) = <<from, to>>
            /\ \A f \in CurrencyCodes, t \in CurrencyCodes :
                   (CurrencyOf(f) = from /\ CurrencyOf(t) = to) =>
                       LET other == ConvertWithCodes(call, f, t)
                       IN  /\ other.url = call.url
                           /\ other.result = call.result

\* a conversion of mixed-case codes succeeded
C21_Witness ==
    /\ Returned
    /\ call.op = "convert_currency"
    /\ call.args.from = "Usd"
    /\ call.args.to = "eur"
    /\ call.http = 1
    /\ ~IsError(call.result)
    /\ CurrencyFields(call.result) = <<"USD", "EUR">>

\* a result map that carries a converted amount
HasConvertedAmount(r) ==
    "converted_amount" \in DOMAIN r \/ "conversion" \in DOMAIN r

\* C22: whenever the ExchangeRate-API response has a `result` other than
\* "success" or has no conversion_rate, ExchangeRateClient.convert and
\* convert_currency return an error result and no map with a converted amount;
\* a success map is returned only when result is "success" and a rate is
\* present.
C22_EnvelopeValidated ==
    (Returned /\ call.op \in ConvertOps) =>
        /\ (/\ call.http = 1
            /\ call.up.status = "ok"
            /\ (call.up.envelope # "success" \/ IsNone(call.up.rate))) =>
               /\ call.raised = ""
               /\ IsError(call.result)
               /\ ~HasConvertedAmount(call.result)
        /\ (call.raised = "" /\ ~IsError(call.result)) =>
               /\ call.http = 1
               /\ call.up.status = "ok"
               /\ call.up.envelope = "success"
               /\ ~IsNone(call.up.rate)
               /\ HasConvertedAmount(call.result)

\* a success envelope without a rate was turned into an error
C22_Witness ==
    /\ Returned
    /\ call.op = "ExchangeRateClient.convert"
    /\ call.http = 1
    /\ call.up.status = "ok"
    /\ call.up.envelope = "success"
    /\ IsNone(call.up.rate)
    /\ call.result.error = <<"Conversion rate not available">>

\* the amount, the rate and the converted amount a conversion result reports
ConversionFigures(r) ==
    IF "conversion" \in DOMAIN r
    THEN [amounts |-> {r.search_metadata.amount, r.conversion.original_amount},
          rates |-> {r.exchange_rate, r.conversion.rate},
          converted |-> r.conversion.converted_amount]
    ELSE [amounts |-> {r.amount}, rates |-> {r.exchange_rate},
          converted |-> r.converted_amount]

\* C23: for every positive amount and every positive conversion_rate of the
\* provider the success result has converted_amount equal to amount * rate
\* rounded to two decimals (the hundredth nearest to the product), reports the
\* provider's rate unchanged and echoes the amount unchanged; 100.0 at 0.92
\* gives 92.0 and the default amount 1.0 gives 0.92.
C23_ConversionArithmetic ==
    (pc = "applied" /\ call.op \in ConvertOps) =>
        LET r == call.out.result
            amount == call.args.amount
            rate == call.args.up.rate[1]
            figures == ConversionFigures(r)
            off == 10 * figures.converted - amount * rate
        IN  /\ call.out.raised = ""
            /\ ~IsError(r)
            /\ -5 <= off /\ off <= 5
            /\ figures.rates = {rate}
            /\ figures.amounts = {amount}
            /\ (amount = 1000 /\ rate = 92) => figures.converted = 9200
            /\ (amount = DefaultAmount /\ rate = 92) => figures.converted = 92

\* 0.7 at rate 0.08 is 0.056 and was rounded up to 0.06
C23_Witness ==
    /\ pc = "applied"
    /\ call.op = "convert_currency"
    /\ call.args.amount = 7
    /\ call.args.up.rate = Some(8)
    /\ call.out.result.conversion.converted_amount = 6

\* C24: for every response body map format_amadeus_response returns a new map
\* with every key and value of the input (but for the two stamped keys), with
\* provider 'Amadeus GDS' and a search_timestamp, and the caller's map is as
\* it was: it gains no provider or search_timestamp key.
C24_FormatFrame ==
    (Applied("format_amadeus_response") /\ call.args.response_body.is = "dict") =>
        LET in == call.args.response_body.dict
            out == call.out.result
        IN  /\ call.out.raised = ""
            /\ DOMAIN out = DOMAIN in \cup {"provider", "search_timestamp"}
            /\ \A k \in DOMAIN in \ {"provider", "search_timestamp"} : out[k] = in[k]
            /\ out["provider"] = "'Amadeus GDS'"
            /\ out["search_timestamp"] # "''"
            /\ call.out.response_body = call.args.response_body
            /\ DOMAIN call.out.response_body.dict = DOMAIN in

\* a body with data and meta and without stamps was stamped
C24_Witness ==
    /\ Applied("format_amadeus_response")
    /\ call.args.response_body.is = "dict"
    /\ DOMAIN call.args.response_body.dict = {"data", "meta"}
    /\ DOMAIN call.out.result = {"data", "meta", "provider", "search_timestamp"}
    /\ DOMAIN call.out.response_body.dict = {"data", "meta"}

\* the API keys a URL carries: the hexadecimal segment after v6 and the
\* values of api_key
KeysCarried(url) ==
    {url.path[i] : i \in {j \in 2..Len(url.path) :
                             /\ url.path[j - 1] = "v6"
                             /\ url.path[j] \in {"4b9d09c3", "abc123"}}}
    \cup {url.query[i][2] : i \in {j \in DOMAIN url.query : url.query[j][1] = "api_key"}}

\* C25: for every URL carrying an API key in the path form /v6/<hex>/ or in
\* the query form api_key=... the output of sanitize_url_for_logging holds
\* [REDACTED] in the place of the key, every other query parameter is as it
\* was, and a URL that carries no key is returned as it was.
C25_Sanitized ==
    Applied("sanitize_url_for_logging") =>
        LET url == call.args.url
            out == call.out
        IN  /\ Len(out.path) = Len(url.path) /\ Len(out.query) = Len(url.query)
            /\ \A i \in 2..Len(url.path) :
                   (url.path[i - 1] = "v6" /\ url.path[i] \in KeysCarried(url)) =>
                       out.path[i] = "[REDACTED]"
            /\ \A i \in DOMAIN url.query :
                   IF url.query[i][1] = "api_key"
                   THEN out.query[i] = <<"api_key", "[REDACTED]">>
                   ELSE out.query[i] = url.query[i]
            /\ \A k \in {"secret123", "secret456"} :
                   \A i \in DOMAIN out.query : out.query[i][2] # k
            /\ KeysCarried(url) = {} => out = url

\* a URL with a key in both forms and another parameter was sanitized
C25_Witness ==
    /\ Applied("sanitize_url_for_logging")
    /\ call.args.url.path = <<"v6", "4b9d09c3", "pair">>
    /\ call.args.url.query = <<<<"q", "test">>, <<"api_key", "secret456">>>>
    /\ call.out.path = <<"v6", "[REDACTED]", "pair">>
    /\ call.out.query = <<<<"q", "test">>, <<"api_key", "[REDACTED]">>>>

\* a distance of so many metres expressed in the unit a label names, in
\* hundredths; a foot is 0.3048 m
DistanceIn(metres, label) ==
    CASE label = "km" -> {Kilometers(metres)}
      [] label \in {"miles", "mi"} -> {Miles(metres)}
      [] label = "nm" -> {Nautical(metres)}
      [] label = "feet" -> {RoundDiv(metres * 100000, 3048)}
      [] OTHER -> {}

\* C26: for every unit argument the distance.value calculate_distance returns
\* is the geodesic distance expressed in the unit that distance.unit names
\* (kilometres for km, miles for miles, nautical miles for nm, in any letter
\* case), and all_units carries the kilometre, mile and nautical-mile values.
C26_DistanceInUnit ==
    (Applied("calculate_distance") /\ call.args.geodesic.kind = "distance") =>
        LET metres == call.args.geodesic.metres
            out == call.out
        IN  /\ ~IsError(out)
            /\ out.distance.value \in DistanceIn(metres, out.distance.unit)
            /\ out.all_units = [kilometers |-> Kilometers(metres),
                                miles |-> Miles(metres),
                                nautical_miles |-> Nautical(metres)]

\* C27: for every flight offer payload extract_flight_accessibility_from_amadeus
\* does not raise and returns the same fixed record: the five flags false,
\* special_service_codes and companion_required None and the note advising to
\* check with the airline, whatever the offer holds.
C27_FlightStub ==
    Applied("extract_flight_accessibility_from_amadeus") =>
        call.out = [raised |-> "",
                    wheelchair_available |-> FALSE,
                    wheelchair_stowage |-> FALSE,
                    accessible_lavatory |-> FALSE,
                    extra_legroom_available |-> FALSE,
                    special_service_codes |-> "None",
                    companion_required |-> "None",
                    special_meals_available |-> FALSE,
                    notes |-> "Check with airline for specific accessibility accommodations"]

ActivityOps ==
    {"Wrapper.search_activities", "Wrapper.get_activity_details",
     "search_activities_amadeus", "get_activity_details_amadeus"}

\* the error result advises a newer SDK version or special access, under a
\* `note` key (wrapper) or at the end of the message (tools)
HasSdkNote(r) ==
    \/ "note" \in r.keys
    \/ " (This API might require a newer SDK version or special access)"
           \in Range(r.error)

\* what the three handlers of an activity operation say of a failure other
\* than AttributeError
OtherActivityErrors(c) ==
    /\ c.up.kind = "ResponseError" =>
           c.result.error[1] = "Amadeus API error: " /\ ~HasSdkNote(c.result)
    /\ c.up.kind \in {"Exception", "body_not_dict"} =>
           c.result.error[1] = "Unexpected error: " /\ ~HasSdkNote(c.result)

CompletePair(p) ==
    /\ p # None
    /\ Len(p) = 2
    /\ p[1] = p[2]
    /\ p[1] \in 1..geocoding.built

\* C29: in every reachable state the module-level geolocator slot is unset or
\* holds a complete (forward, reverse) limiter pair around one geocoder; a
\* duplicate initialization by racing first callers replaces the slot with
\* another complete pair, and no caller receives or keeps a partial pair or a
\* pair that mixes two geocoders.
C29_SlotIntegrity ==
    /\ GEOLOCATOR_INSTANCE = None \/ CompletePair(GEOLOCATOR_INSTANCE)
    /\ \A p \in geocoding.returned : CompletePair(p)
    /\ \A t \in Threads : threads[t].pair = None \/ CompletePair(threads[t].pair)
    /\ (GEOLOCATOR_INSTANCE = None) <=> (geocoding.built = 0)

\* two racing first callers built a geocoder each, the second store replaced
\* the first pair, and both pairs were handed out
C29_Witness ==
    /\ geocoding.built = 2
    /\ geocoding.replaced
    /\ GEOLOCATOR_INSTANCE = <<2, 2>>
    /\ geocoding.returned = {<<1, 1>>, <<2, 2>>}

\* C30: the request of search_events_serpapi carries an htichips parameter iff
\* date_filter or event_type is non-empty; with date_filter alone it is
\* 'date:<date_filter>', with event_type alone 'event_type:<event_type>', and
\* with both it is the event_type filter (the date filter is not sent), while
\* search_metadata echoes both values.
C30_EventFilter ==
    Applied("search_events_serpapi_request") =>
        LET d == call.args.date_filter
            e == call.args.event_type
            hasD == d \notin {"None", "''"}
            hasE == e \notin {"None", "''"}
            params == call.out.params
        IN  /\ ("htichips" \in DOMAIN params) <=> (hasD \/ hasE)
            /\ (hasD /\ ~hasE) => params.htichips = <<"date:", d>>
            /\ hasE => params.htichips = <<"event_type:", e>>
            /\ DOMAIN params \ {"htichips"} = {"q", "hl", "gl"}
            /\ call.out.search_metadata.date_filter = d
            /\ call.out.search_metadata.event_type = e

\* both filters were supplied and the event type alone was sent
C30_Witness ==
    /\ Applied("search_events_serpapi_request")
    /\ call.args.date_filter = "'today'"
    /\ call.args.event_type = "'Virtual-Event'"
    /\ call.out.params.htichips = <<"event_type:", "'Virtual-Event'">>
    /\ call.out.search_metadata.date_filter = "'today'"

====
